---- MODULE Spec2Model ----
(***************************************************************************)
(* Model of the retrieval-and-ranking core of hr-query-chatbot:            *)
(*   backend/cache.py        MemoryCache (bounded FIFO map with lazy TTL)  *)
(*   backend/rag.py          EmployeeRAG (startup build, persistence,      *)
(*                           enhanced_search)                              *)
(*   backend/gemini_rag.py   GeminiEmployeeRAG.enhanced_search             *)
(*   backend/query_processor.py  QueryProcessor.process_query              *)
(*   backend/main.py         startup and the dispatch of searches          *)
(*   backend/response_generator.py  ResponseGenerator                      *)
(*   backend/ai_client.py    AIClientManager                               *)
(*   tests/api_client.py     retry_on_failure, RobustAPIClient             *)
(* The specifications share the variables below:                           *)
(*   SpecCache   set/get/clock steps on one MemoryCache                    *)
(*   SpecBuild   dataset changes and EmployeeRAG constructions over the    *)
(*               persisted embedding / index files                         *)
(*   SpecRank    process starts and enhanced_search calls                  *)
(*   SpecQuery   QueryProcessor.process_query on bounded queries           *)
(*   SpecConfig  get_cache under the configured backend and redis url      *)
(*   SpecDrift   cached searches across dataset changes and restarts       *)
(*   SpecOutage  searches while the embedding provider fails and recovers  *)
(*   SpecCorrupt searches over foreign entries in the external cache       *)
(*   SpecPersist constructions while the file operations fail              *)
(*   SpecSummary ResponseGenerator.generate_response and its summary cache *)
(*   SpecThreads interleaved searches on one GeminiEmployeeRAG             *)
(*   SpecRetry   calls through retry_on_failure (tests/api_client.py)      *)
(*   SpecManager AIClientManager.generate_response (backend/ai_client.py)  *)
(***************************************************************************)
EXTENDS Integers, Sequences, FiniteSets, TLC

(***************************************************************************)
(* Bounds of the model.                                                    *)
(***************************************************************************)
Capacity == 2          \* MemoryCache.capacity (1000 in cache.py:29)
DefaultTTL == 2        \* MemoryCache.default_ttl (300 s in config.py:24)
MaxTTL == 1            \* largest explicit ttl_seconds passed to set()
MaxTime == 3           \* the clock runs 0..MaxTime
MaxOps == 4            \* operations performed on the cache in one run
MaxChanges == 2        \* dataset changes in one run
MaxBuilds == 3         \* EmployeeRAG constructions (process starts) in one run

None == "None"

CacheKeys == {"A", "B", "C"}
\* values are opaque payloads: the n-th operation writes the payload <<"v", n>>
CacheValues == {<<"v", n>> : n \in 1..MaxOps}
NoValue == <<>>
\* ttl_seconds as passed by a caller: 0 stands for None/0 (both falsy)
TTLArgs == 0..MaxTTL

(***************************************************************************)
(* State.                                                                  *)
(***************************************************************************)
VARIABLES
    store,      \* MemoryCache._store in dict order: seq of [pk, ts, ttl, value]
    now,        \* time.time()
    born,       \* history: pk -> [n, at, ttl, value] as requested by the callers
    nops,       \* history: operations performed so far
    op,         \* history: the last operation [type, key, value, at]
    ret,        \* history: what the last get() returned
    evicted,    \* history: pk removed by the last set(), or None
    employees,  \* the dataset handed to the next EmployeeRAG(...): seq of Employee
    disk,       \* EMBEDDING_CACHE_DIR: [emb, embMeta, idx, idxMeta] files
    rag,        \* the EmployeeRAG instance of the running process
    env,        \* history: what the providers did during the last construction
    nchanges,   \* history: dataset changes so far
    nbuilds,    \* history: constructions so far
    seed,       \* the running process's str hash seed (fixes set iteration order)
    geometry,   \* the embedding provider: which similarities its vectors give
    faissTie,   \* the faiss build: which of two equal scores it returns first
    grag,       \* the GeminiEmployeeRAG instance of the running process
    call,       \* history: the last enhanced_search call and its outcome
    nsearch,    \* history: enhanced_search calls so far
    cfg,        \* the environment of the cache: CACHE_BACKEND, REDIS_URL, the redis
                \* library and what the server answers to a ping
    cacheObj,   \* what get_cache() returned to its last caller
    redis,      \* the entries of the external store: set of [pk, data, expires,
                \* written_for]; written_for is history, the dataset of the writer
    qwords,     \* the words of the query handed to QueryProcessor.process_query
    pquery,     \* the ProcessedQuery it returned
    summaries,  \* ResponseGenerator: [store, last, prev, n]: its _summary_cache
                \* and, as history, its last two calls and their number
    threads,    \* the threads calling enhanced_search on the instance: thread ->
                \* [pc, key, results, oldest_key, error, ncalls]
    retry,      \* the wrapper of retry_on_failure around a call of RobustAPIClient:
                \* [pc, func, attempt, current_delay, last_exception, result] and,
                \* as history, calls, seen, sleeps, ncalls
    manager     \* the module-level AIClientManager: [clients, primary_client,
                \* fallback_clients] and, as history, the last generate_response:
                \* [request, does, generated, n]

cacheVars == <<store, now, born, nops, op, ret, evicted>>
buildVars == <<employees, disk, rag, env, nchanges, nbuilds>>
rankVars == <<seed, geometry, faissTie, grag, call, nsearch>>
queryVars == <<qwords, pquery>>
configVars == <<cfg, cacheObj, redis>>
serviceVars == <<summaries, threads, retry, manager>>
clientVars == <<retry, manager>>
vars == <<store, now, born, nops, op, ret, evicted,
          employees, disk, rag, env, nchanges, nbuilds,
          seed, geometry, faissTie, grag, call, nsearch,
          qwords, pquery, cfg, cacheObj, redis, summaries, threads,
          retry, manager>>

(***************************************************************************)
(* backend/cache.py: MemoryCache                                            *)
(***************************************************************************)
prefix == "rag:query"

\* MemoryCache._pk
Pk(key) == IF prefix # "" THEN prefix \o ":" \o key ELSE key

StoreKeys(s) == {s[i].pk : i \in 1..Len(s)}

IndexOf(s, pk) == CHOOSE i \in 1..Len(s) : s[i].pk = pk

RemoveKey(s, pk) == SelectSeq(s, LAMBDA e : e.pk # pk)

\* dict.__setitem__: an existing key keeps its position, a new key goes last
DictSet(s, e) ==
    IF e.pk \in StoreKeys(s)
    THEN [s EXCEPT ![IndexOf(s, e.pk)] = e]
    ELSE Append(s, e)

\* MemoryCache.size
MemoryCache_size(s) == Len(s)

\* mutant of MemoryCache.get: a hit moves the entry to the end (access order)
MemoryCache_get_lru(s, key, t) ==
    LET pk == Pk(key) IN
    IF pk \notin StoreKeys(s)
    THEN [store |-> s, hit |-> FALSE, value |-> NoValue]
    ELSE LET item == s[IndexOf(s, pk)] IN
         IF t - item.ts > item.ttl
         THEN [store |-> RemoveKey(s, pk), hit |-> FALSE, value |-> NoValue]
         ELSE [store |-> Append(RemoveKey(s, pk), item), hit |-> TRUE, value |-> item.value]

\* mutant of MemoryCache.get: an expired entry is reported as a miss but kept
MemoryCache_get_keep(s, key, t) ==
    LET pk == Pk(key) IN
    IF pk \notin StoreKeys(s)
    THEN [store |-> s, hit |-> FALSE, value |-> NoValue]
    ELSE LET item == s[IndexOf(s, pk)] IN
         IF t - item.ts > item.ttl
         THEN [store |-> s, hit |-> FALSE, value |-> NoValue]
         ELSE [store |-> s, hit |-> TRUE, value |-> item.value]

\* MemoryCache.get: [store after the call, hit, value returned]
MemoryCache_get(s, key, t) ==
    LET pk == Pk(key) IN
    IF pk \notin StoreKeys(s)
    THEN [store |-> s, hit |-> FALSE, value |-> NoValue]
    ELSE LET item == s[IndexOf(s, pk)] IN
         IF t - item.ts > item.ttl
         THEN [store |-> RemoveKey(s, pk), hit |-> FALSE, value |-> NoValue]
         ELSE [store |-> s, hit |-> TRUE, value |-> item.value]

\* mutant of MemoryCache.set: a key already stored is left as it is
MemoryCache_set_keep(s, key, value, ttl_seconds, t) ==
    LET pk == Pk(key)
        kept == IF Len(s) >= Capacity THEN Tail(s) ELSE s
        ttl == IF ttl_seconds # 0 THEN ttl_seconds ELSE DefaultTTL
    IN IF pk \in StoreKeys(kept) THEN kept
       ELSE Append(kept, [pk |-> pk, ts |-> t, ttl |-> ttl, value |-> value])

\* mutant of MemoryCache.set: a full store evicts nothing
MemoryCache_set_unbounded(s, key, value, ttl_seconds, t) ==
    LET pk == Pk(key)
        ttl == IF ttl_seconds # 0 THEN ttl_seconds ELSE DefaultTTL
    IN DictSet(s, [pk |-> pk, ts |-> t, ttl |-> ttl, value |-> value])

\* MemoryCache.set: the store after the call
MemoryCache_set(s, key, value, ttl_seconds, t) ==
    LET pk == Pk(key)
        kept == IF Len(s) >= Capacity THEN Tail(s) ELSE s
        ttl == IF ttl_seconds # 0 THEN ttl_seconds ELSE DefaultTTL
    IN DictSet(kept, [pk |-> pk, ts |-> t, ttl |-> ttl, value |-> value])

NoOp == [type |-> "none", key |-> None, value |-> NoValue, at |-> 0]

(***************************************************************************)
(* backend/cache.py: RedisCache.__init__ and get_cache                     *)
(***************************************************************************)
\* values of the CACHE_BACKEND and REDIS_URL environment variables, and what
\* the server does when pinged
CacheBackends == {"auto", "redis", "memory", "MEMORY", "", "memcached"}
RedisUrls == {"", "redis://cache:6379/0", "cache:6379"}
PingOutcomes == {"PONG", "ConnectionError", "TimeoutError"}
Prefixes == {"rag:query", "ai:summary"}

Configs == [backend : CacheBackends, url : RedisUrls, lib : BOOLEAN, ping : PingOutcomes]

\* config.py defaults: CACHE_BACKEND "auto", REDIS_URL ""
DefaultConfig == [backend |-> "auto", url |-> "", lib |-> TRUE, ping |-> "PONG"]

NoCache == [made |-> FALSE, raised |-> None, kind |-> None, prefix |-> "", default_ttl |-> 0]

\* (CACHE_BACKEND or "auto").lower()
BackendName(b) == IF b = "" THEN "auto" ELSE IF b = "MEMORY" THEN "memory" ELSE b

\* redis.Redis.from_url accepts the redis://, rediss:// and unix:// schemes
UrlParses(url) == url = "redis://cache:6379/0"

\* MemoryCache(prefix=..., default_ttl=...)
MemoryCache_init(p, default_ttl) ==
    [made |-> TRUE, raised |-> None, kind |-> "memory", prefix |-> p,
     default_ttl |-> default_ttl]

\* RedisCache.__init__: from_url raises ValueError on a URL it cannot parse, a
\* failed ping is re-raised as RuntimeError
RedisCache_init(c, p, default_ttl) ==
    IF ~UrlParses(c.url) THEN [NoCache EXCEPT !.made = TRUE, !.raised = "ValueError"]
    ELSE IF c.ping # "PONG" THEN [NoCache EXCEPT !.made = TRUE, !.raised = "RuntimeError"]
    ELSE [made |-> TRUE, raised |-> None, kind |-> "redis", prefix |-> p,
          default_ttl |-> default_ttl]

\* mutant of get_cache: the construction of RedisCache is not guarded
get_cache_unguarded(c, p, default_ttl) ==
    LET backend == BackendName(c.backend) IN
    IF backend = "memory" THEN MemoryCache_init(p, default_ttl)
    ELSE IF backend \in {"auto", "redis"} /\ c.url # "" /\ c.lib
    THEN RedisCache_init(c, p, default_ttl)
    ELSE MemoryCache_init(p, default_ttl)

\* get_cache(prefix, default_ttl) in the environment c
get_cache(c, p, default_ttl) ==
    LET backend == BackendName(c.backend) IN
    IF backend = "memory" THEN MemoryCache_init(p, default_ttl)
    ELSE IF backend \in {"auto", "redis"} /\ c.url # "" /\ c.lib
            /\ RedisCache_init(c, p, default_ttl).raised = None
    THEN RedisCache_init(c, p, default_ttl)
    ELSE MemoryCache_init(p, default_ttl)

(***************************************************************************)
(* backend/rag.py: the dataset, its texts and its fingerprint.              *)
(***************************************************************************)
\* the strings of the model in Python's str order (sorted() compares them)
Lexicon == <<"Banking API", "Medical Portal", "Python", "React", "SQL">>

StrRank(x) == CHOOSE i \in 1..Len(Lexicon) : Lexicon[i] = x

\* insert x into the sorted sequence q, after the elements that are <= x
SortedInsert(q, x) ==
    LET before == SelectSeq(q, LAMBDA y : StrRank(y) <= StrRank(x))
        after == SelectSeq(q, LAMBDA y : StrRank(y) > StrRank(x))
    IN before \o <<x>> \o after

RECURSIVE Sorted(_)
\* sorted(list of str)
Sorted(q) == IF q = <<>> THEN <<>> ELSE SortedInsert(Sorted(Tail(q)), Head(q))

BaseEmployees ==
    << [id |-> 1, name |-> "Ann", experience_years |-> 5,
        skills |-> <<"Python", "SQL">>, projects |-> <<"Medical Portal">>,
        availability |-> "available"],
       [id |-> 2, name |-> "Bob", experience_years |-> 2,
        skills |-> <<"React">>, projects |-> <<"Banking API">>,
        availability |-> "busy"] >>

\* the values a dataset edit may give to a field
FieldValues(field) ==
    CASE field = "skills" -> {<<"Python", "SQL">>, <<"SQL", "Python">>, <<"React">>}
      [] field = "projects" -> {<<"Medical Portal">>, <<"Banking API">>}
      [] field = "experience_years" -> {2, 5}
      [] field = "availability" -> {"available", "busy"}

EditableFields == {"skills", "projects", "experience_years", "availability"}

Lower(x) ==
    CASE x = "Python" -> "python"
      [] x = "React" -> "react"
      [] x = "SQL" -> "sql"
      [] x = "Medical Portal" -> "medical portal"
      [] x = "Banking API" -> "banking api"
      [] OTHER -> x

SeqRange(q) == {q[i] : i \in 1..Len(q)}

\* EmployeeRAG._generate_skill_context
generate_skill_context(emp) ==
    LET skills == {Lower(x) : x \in SeqRange(emp.skills)}
        ai == IF {"tensorflow", "pytorch", "scikit-learn"} \cap skills # {}
              THEN <<"artificial intelligence">> ELSE <<>>
        web == IF {"python", "javascript", "react", "django"} \cap skills # {}
               THEN <<"full-stack web developer">> ELSE <<>>
    IN ai \o web

\* EmployeeRAG._generate_domain_context ('health'/'medical', 'finance'/'banking'
\* as substrings of the joined, lower-cased project names)
generate_domain_context(emp) ==
    LET projects == {Lower(x) : x \in SeqRange(emp.projects)}
        health == IF "medical portal" \in projects THEN <<"healthcare">> ELSE <<>>
        fin == IF "banking api" \in projects THEN <<"fintech">> ELSE <<>>
    IN health \o fin

\* EmployeeRAG._create_employee_text: the parts joined by " | "; the lists are
\* joined in stored order
create_employee_text(emp) ==
    << <<"Employee", emp.name>>,
       <<"Technical Skills", emp.skills>>,
       <<"Professional Experience", emp.experience_years>>,
       <<"Project Portfolio", emp.projects>>,
       <<"Current Status", emp.availability>> >>
    \o (IF generate_skill_context(emp) # <<>>
        THEN << <<"Specialization Areas", generate_skill_context(emp)>> >> ELSE <<>>)
    \o (IF generate_domain_context(emp) # <<>>
        THEN << <<"Domain Expertise", generate_domain_context(emp)>> >> ELSE <<>>)

employee_texts(emps) == [i \in 1..Len(emps) |-> create_employee_text(emps[i])]

\* hashlib.sha256 of the compact JSON dump: collision-free on the model's data
Sha256(raw) == <<"sha256", raw>>

\* EmployeeRAG._dataset_fingerprint
dataset_fingerprint(emps) ==
    LET data == [i \in 1..Len(emps) |->
                   [id |-> emps[i].id,
                    name |-> emps[i].name,
                    exp |-> emps[i].experience_years,
                    skills |-> Sorted(emps[i].skills),
                    projects |-> Sorted(emps[i].projects),
                    availability |-> emps[i].availability]]
    IN [sha256 |-> Sha256(data), count |-> Len(emps)]

(***************************************************************************)
(* backend/cache.py: RedisCache.get and RedisCache.set on the entries rs of *)
(* the external store, which outlives the processes.                       *)
(***************************************************************************)
\* the Python values a cache entry may hold.  items is what iterating the
\* value yields: the elements of a list, the characters of a str, the keys of
\* a dict; a dict element is a record, any other element is [scalar |-> x]
PyList(items) == [type |-> "list", n |-> 0, items |-> items]
PyStr(chars) == [type |-> "str", n |-> 0, items |-> chars]
PyInt(n) == [type |-> "int", n |-> n, items |-> <<>>]

\* bool(value)
Truthy(v) == IF v.type = "int" THEN v.n # 0 ELSE v.items # <<>>

\* the text stored under a key: valid says whether it is JSON, value is what
\* json.loads makes of it, or the text itself when it is not JSON
json_dumps(value) == [valid |-> TRUE, value |-> value]
json_loads(data) == [raised |-> ~data.valid, value |-> data.value]

\* RedisCache.get at time t: the server drops an entry when its time is up
RedisCache_get(rs, key, t) ==
    LET live == {x \in rs : x.pk = Pk(key) /\ t < x.expires} IN
    IF live = {} THEN [hit |-> FALSE, value |-> NoValue, written_for |-> <<>>]
    ELSE LET x == CHOOSE y \in live : TRUE
             loaded == json_loads(x.data)
         IN [hit |-> TRUE,
             value |-> IF loaded.raised THEN x.data.value ELSE loaded.value,
             written_for |-> x.written_for]

\* RedisCache.set of a list at time t by an instance over the dataset emps
RedisCache_set(rs, co, key, value, ttl_seconds, t, emps) ==
    LET ttl == IF ttl_seconds # 0 THEN ttl_seconds ELSE co.default_ttl
    IN {x \in rs : x.pk # Pk(key)}
          \cup {[pk |-> Pk(key), data |-> json_dumps(value), expires |-> t + ttl,
                 written_for |-> emps]}

(***************************************************************************)
(* backend/rag.py: embedding strategies.                                    *)
(***************************************************************************)
DEFAULT_EMBEDDING_DIMENSION == 768
MiniLMDimension == 384

\* GeminiEmbedding.get_stats / SentenceTransformerEmbedding.get_stats
get_stats(strategy) ==
    IF strategy = "gemini"
    THEN [embedding_model |-> "gemini-embedding-001", dimension |-> DEFAULT_EMBEDDING_DIMENSION]
    ELSE [embedding_model |-> "all-MiniLM-L6-v2", dimension |-> MiniLMDimension]

\* the length, in hundredths, of the vectors a provider returns: GeminiClient
\* divides every embedding of fewer than 3072 dimensions by its norm, and
\* all-MiniLM-L6-v2 ends in a normalization layer
ProviderNorm(strategy) == IF strategy = "gemini" THEN 100 ELSE 100

\* the vector a provider returns for a text: determined by the model and the text
Embed(strategy, text) ==
    [model |-> get_stats(strategy).embedding_model, text |-> text,
     norm |-> ProviderNorm(strategy)]

\* EmbeddingStrategy.prepare_embeddings: row i is the embedding of texts[i]
prepare_embeddings(strategy, texts) == [i \in 1..Len(texts) |-> Embed(strategy, texts[i])]

NoMatrix == [some |-> FALSE, rows |-> <<>>, normalized |-> FALSE]
NoIndex == [some |-> FALSE, rows |-> <<>>, metric |-> "ip"]
NoFile == [exists |-> FALSE]

\* what the environment can do during one construction
AllEnvs ==
    [gem : {"ok", "unavailable", "ConnectionError"},  \* GeminiEmbedding(api_key)
     gemEmbed : BOOLEAN,                               \* Gemini embed calls succeed
     st : {"ok", "unavailable", "OSError"},            \* SentenceTransformerEmbedding()
     stEmbed : BOOLEAN,                                \* model.encode succeeds
     loadEmb : BOOLEAN,                                \* json.load / np.load succeed
     saveEmb : {"ok", "matrix_only", "nothing"},       \* how far the save gets
     faiss : BOOLEAN,                                  \* FAISS_ENABLED and FAISS_AVAILABLE
     metric : {"ip", "l2"},                            \* FAISS_METRIC
     readIdx : BOOLEAN,                                \* faiss.read_index succeeds
     buildIdx : BOOLEAN,                               \* IndexFlat*/add succeed
     saveIdx : {"ok", "index_only", "nothing"}]        \* how far the save gets

\* outcomes that cannot matter are fixed
Relevant(e) ==
    /\ (e.gem # "ok" => e.gemEmbed)
    /\ (e.st # "ok" => e.stEmbed)
    /\ (~e.faiss => e.readIdx /\ e.buildIdx /\ e.saveIdx = "ok" /\ e.metric = "ip")

\* SpecBuild: a provider works (Gemini, or the local one when Gemini is not
\* installed), the files are readable, and a save may stop between its two
\* writes; the metric stays "ip"
PersistEnvs ==
    {e \in AllEnvs :
        /\ Relevant(e)
        /\ e.gem \in {"ok", "unavailable"} /\ e.gemEmbed
        /\ e.st = "ok" /\ e.stEmbed
        /\ e.loadEmb /\ e.readIdx /\ e.buildIdx
        /\ e.metric = "ip"
        /\ e.saveEmb # "nothing" /\ e.saveIdx # "nothing"}

\* the part of the environment the history keeps
Providers(e) == [gem |-> e.gem, gemEmbed |-> e.gemEmbed, st |-> e.st, stEmbed |-> e.stEmbed]

NoEnv == [gem |-> "ok", gemEmbed |-> TRUE, st |-> "ok", stEmbed |-> TRUE]

\* EmployeeRAG._initialize_strategy: only ImportError and ConnectionError of the
\* Gemini strategy and ImportError of the local one are caught
initialize_strategy(e) ==
    IF e.gem = "ok" THEN [raised |-> FALSE, strategy |-> "gemini"]
    ELSE IF e.st = "ok" THEN [raised |-> FALSE, strategy |-> "st"]
    ELSE IF e.st = "OSError" THEN [raised |-> TRUE, strategy |-> None]
    ELSE [raised |-> FALSE, strategy |-> None]

EmbedWorks(e, strategy) == IF strategy = "gemini" THEN e.gemEmbed ELSE e.stEmbed

\* the validation of _load_embeddings_from_cache
embedding_meta_matches(meta, strategy, emps) ==
    /\ meta.embedding_model = get_stats(strategy).embedding_model
    /\ meta.dimension = get_stats(strategy).dimension
    /\ meta.dataset_fp = dataset_fingerprint(emps)

\* EmployeeRAG._load_embeddings_from_cache: [ok, embeddings]
load_embeddings_from_cache(d, strategy, emps, e) ==
    IF ~(d.emb.exists /\ d.embMeta.exists) THEN [ok |-> FALSE, embeddings |-> NoMatrix]
    ELSE IF ~e.loadEmb THEN [ok |-> FALSE, embeddings |-> NoMatrix]
    ELSE IF embedding_meta_matches(d.embMeta, strategy, emps)
         THEN [ok |-> TRUE,
               embeddings |-> [some |-> TRUE, rows |-> d.emb.rows, normalized |-> FALSE]]
         ELSE [ok |-> FALSE, embeddings |-> NoMatrix]

\* EmployeeRAG._save_embeddings_to_cache: np.save writes the matrix, then the
\* sidecar descriptor is written; a failure at either point is logged and swallowed
save_embeddings_to_cache(d, embeddings, strategy, emps, e) ==
    LET matrix == [exists |-> TRUE, rows |-> embeddings.rows]
        meta == [exists |-> TRUE,
                 embedding_model |-> get_stats(strategy).embedding_model,
                 dimension |-> get_stats(strategy).dimension,
                 dataset_fp |-> dataset_fingerprint(emps)]
    IN CASE e.saveEmb = "ok" -> [d EXCEPT !.emb = matrix, !.embMeta = meta]
         [] e.saveEmb = "matrix_only" -> [d EXCEPT !.emb = matrix]
         [] OTHER -> d

\* the validation of _load_faiss_index
faiss_meta_matches(meta, strategy, emps, metric) ==
    /\ meta.embedding_model = get_stats(strategy).embedding_model
    /\ meta.dimension = get_stats(strategy).dimension
    /\ meta.dataset_fp = dataset_fingerprint(emps)
    /\ meta.metric = metric
    /\ meta.count = Len(emps)

\* EmployeeRAG._save_faiss_index: the index file, then its descriptor
save_faiss_index(d, index, strategy, emps, metric, e) ==
    LET file == [exists |-> TRUE, rows |-> index.rows, metric |-> index.metric]
        meta == [exists |-> TRUE,
                 embedding_model |-> get_stats(strategy).embedding_model,
                 dimension |-> get_stats(strategy).dimension,
                 dataset_fp |-> dataset_fingerprint(emps),
                 metric |-> metric,
                 count |-> Len(emps)]
    IN CASE e.saveIdx = "ok" -> [d EXCEPT !.idx = file, !.idxMeta = meta]
         [] e.saveIdx = "index_only" -> [d EXCEPT !.idx = file]
         [] OTHER -> d

\* EmployeeRAG._ensure_normalized_embeddings
ensure_normalized_embeddings(embeddings) ==
    IF ~embeddings.some THEN embeddings
    ELSE [embeddings EXCEPT
            !.rows = [i \in 1..Len(embeddings.rows) |->
                         [embeddings.rows[i] EXCEPT !.norm = 100]],
            !.normalized = TRUE]

\* mutant of EmployeeRAG._load_faiss_index: a read that fails still counts as
\* a loaded index
load_faiss_index_unguarded(d, strategy, emps, metric, e) ==
    IF ~(d.idx.exists /\ d.idxMeta.exists) THEN [ok |-> FALSE, index |-> NoIndex]
    ELSE IF ~faiss_meta_matches(d.idxMeta, strategy, emps, metric)
         THEN [ok |-> FALSE, index |-> NoIndex]
    ELSE IF ~e.readIdx THEN [ok |-> TRUE, index |-> NoIndex]
    ELSE [ok |-> TRUE, index |-> [some |-> TRUE, rows |-> d.idx.rows, metric |-> d.idx.metric]]

\* EmployeeRAG._load_faiss_index: [ok, index]
load_faiss_index(d, strategy, emps, metric, e) ==
    IF ~(d.idx.exists /\ d.idxMeta.exists) THEN [ok |-> FALSE, index |-> NoIndex]
    ELSE IF ~faiss_meta_matches(d.idxMeta, strategy, emps, metric)
         THEN [ok |-> FALSE, index |-> NoIndex]
    ELSE IF ~e.readIdx THEN [ok |-> FALSE, index |-> NoIndex]
    ELSE [ok |-> TRUE, index |-> [some |-> TRUE, rows |-> d.idx.rows, metric |-> d.idx.metric]]

\* mutant of EmployeeRAG._init_faiss_index: the new, still empty index is made
\* the active one before the vectors are added, and a failure leaves it in place
init_faiss_index_early_swap(r, d, emps, e) ==
    IF ~(e.faiss /\ r.employee_embeddings.some)
    THEN [rag |-> [r EXCEPT !.faiss_active = FALSE,
                            !.raw_embeddings = r.employee_embeddings], disk |-> d]
    ELSE LET loaded == load_faiss_index(d, r.embedding_strategy, emps, r.faiss_metric, e)
             r0 == [r EXCEPT !.raw_embeddings = r.employee_embeddings]
         IN
         IF loaded.ok
         THEN [rag |-> [r0 EXCEPT !.faiss_index = loaded.index, !.faiss_active = TRUE,
                                  !.loadedIdx = TRUE],
               disk |-> d]
         ELSE LET emb == IF r.faiss_metric = "ip"
                         THEN ensure_normalized_embeddings(r.employee_embeddings)
                         ELSE r.employee_embeddings
                  index == [some |-> TRUE, rows |-> emb.rows, metric |-> r.faiss_metric]
              IN IF ~e.buildIdx
                 THEN [rag |-> [r0 EXCEPT !.employee_embeddings = emb,
                                          !.faiss_index = [index EXCEPT !.rows = <<>>],
                                          !.faiss_active = TRUE,
                                          !.faiss_failed = TRUE],
                       disk |-> d]
                 ELSE [rag |-> [r0 EXCEPT !.employee_embeddings = emb,
                                          !.faiss_index = index, !.faiss_active = TRUE],
                       disk |-> save_faiss_index(d, index, r.embedding_strategy, emps,
                                                 r.faiss_metric, e)]

\* EmployeeRAG._init_faiss_index: r is the instance so far, d the disk.  For the
\* "ip" metric the rows are normalized in place before the index is built; the
\* index and the active flag are assigned once IndexFlat*/add have succeeded,
\* and the except clause resets both.  History: raw_embeddings keeps the
\* matrix as it was on entry, faiss_failed records that the build failed.
init_faiss_index(r, d, emps, e) ==
    IF ~(e.faiss /\ r.employee_embeddings.some)
    THEN [rag |-> [r EXCEPT !.faiss_active = FALSE,
                            !.raw_embeddings = r.employee_embeddings], disk |-> d]
    ELSE LET loaded == load_faiss_index(d, r.embedding_strategy, emps, r.faiss_metric, e)
             r0 == [r EXCEPT !.raw_embeddings = r.employee_embeddings]
         IN
         IF loaded.ok
         THEN [rag |-> [r0 EXCEPT !.faiss_index = loaded.index, !.faiss_active = TRUE,
                                  !.loadedIdx = TRUE],
               disk |-> d]
         ELSE LET emb == IF r.faiss_metric = "ip"
                         THEN ensure_normalized_embeddings(r.employee_embeddings)
                         ELSE r.employee_embeddings
                  index == [some |-> TRUE, rows |-> emb.rows, metric |-> r.faiss_metric]
              IN IF ~e.buildIdx
                 THEN [rag |-> [r0 EXCEPT !.employee_embeddings = emb,
                                          !.faiss_index = NoIndex, !.faiss_active = FALSE,
                                          !.faiss_failed = TRUE],
                       disk |-> d]
                 ELSE [rag |-> [r0 EXCEPT !.employee_embeddings = emb,
                                          !.faiss_index = index, !.faiss_active = TRUE],
                       disk |-> save_faiss_index(d, index, r.embedding_strategy, emps,
                                                 r.faiss_metric, e)]

\* EmployeeRAG._prepare_documents_and_embeddings (EMBEDDING_CACHE_ENABLED is on)
prepare_documents_and_embeddings(r, d, emps, e) ==
    LET texts == employee_texts(emps)
        r1 == [r EXCEPT !.employee_texts = texts]
        cached == load_embeddings_from_cache(d, r.embedding_strategy, emps, e)
    IN IF cached.ok
       THEN init_faiss_index([r1 EXCEPT !.employee_embeddings = cached.embeddings,
                                        !.loadedEmb = TRUE], d, emps, e)
       ELSE IF ~EmbedWorks(e, r.embedding_strategy)
            THEN [rag |-> [r1 EXCEPT !.employee_embeddings = NoMatrix], disk |-> d]
            ELSE LET fresh == [some |-> TRUE,
                               rows |-> prepare_embeddings(r.embedding_strategy, texts),
                               normalized |-> FALSE]
                     r2 == [r1 EXCEPT !.employee_embeddings = fresh]
                     d2 == save_embeddings_to_cache(d, fresh, r.embedding_strategy, emps, e)
                 IN init_faiss_index(r2, d2, emps, e)

NoRag ==
    [constructed |-> "none", employees |-> <<>>, embedding_strategy |-> None,
     employee_embeddings |-> NoMatrix, employee_texts |-> <<>>,
     faiss_index |-> NoIndex, faiss_metric |-> "ip", faiss_active |-> FALSE,
     loadedEmb |-> FALSE, loadedIdx |-> FALSE,
     raw_embeddings |-> NoMatrix, faiss_failed |-> FALSE]

\* EmployeeRAG.__init__: [rag, disk]; constructed = "raised" when it raises
EmployeeRAG_init(emps, d, e) ==
    LET chosen == initialize_strategy(e)
        r0 == [NoRag EXCEPT !.constructed = "ok", !.employees = emps,
                            !.embedding_strategy = chosen.strategy,
                            !.faiss_metric = e.metric]
    IN IF chosen.raised THEN [rag |-> [NoRag EXCEPT !.constructed = "raised"], disk |-> d]
       ELSE IF chosen.strategy # None THEN prepare_documents_and_embeddings(r0, d, emps, e)
       ELSE [rag |-> r0, disk |-> d]

\* EmployeeRAG.is_active
is_active(r) ==
    r.constructed = "ok" /\ r.embedding_strategy # None /\ r.employee_embeddings.some

(***************************************************************************)
(* backend/query_processor.py.  A text is the sequence of its words         *)
(* (str.split()); substring tests are tables over the words of the model.  *)
(***************************************************************************)
Queries == {"python", "Python ", "python sql 3 years", "5 years"}

\* str.lower().strip()
LowerStrip(q) == IF q = "Python " THEN "python" ELSE q

\* str(int) for the numbers of the model
ToStr(n) ==
    CASE n = 0 -> "0" [] n = 1 -> "1" [] n = 2 -> "2" [] n = 3 -> "3"
      [] n = 4 -> "4" [] n = 5 -> "5" [] n = 6 -> "6" [] OTHER -> "many"

\* int(str) for the number words of the model
ToInt(w) == CASE w = "2" -> 2 [] w = "3" -> 3 [] w = "5" -> 5 [] OTHER -> 0

NumberWords == {"2", "3", "5"}

\* needle in hay, for the lower-cased strings of the model
Substr(needle, hay) ==
    \/ needle = hay
    \/ <<needle, hay>> \in {<<"medical", "medical portal">>, <<"banking", "banking api">>,
                            <<"health", "healthcare">>}

\* str.split() of the query strings of the model
Words(query) ==
    CASE query = "python" -> <<"python">>
      [] query = "Python " -> <<"Python">>
      [] query = "python sql 3 years" -> <<"python", "sql", "3", "years">>
      [] query = "5 years" -> <<"5", "years">>
      [] OTHER -> <<>>

\* the replacements of _clean_query on one lower-cased word, in dict order:
\* '+' -> 'plus', 'exp' -> 'experience', 'dev' -> 'developer', 'eng' ->
\* 'engineer', each str.replace acting on every occurrence inside the word
\* ('w/', 'w/o' and '&' never occur: '/' and '&' were made spaces before)
Replace(w) ==
    CASE w = "5+" -> "5plus"
      [] w = "3+" -> "3plus"
      [] w = "exp" -> "experience"
      [] w = "experience" -> "experienceerience"
      [] w = "dev" -> "developer"
      [] w = "developer" -> "developereloper"
      [] w = "engineer" -> "engineerineer"
      [] OTHER -> w

\* QueryProcessor._clean_query on the words of a query: lower, strip and
\* whitespace folding leave the words, no word of the model has a character
\* outside [\w\s+-.], then the replacements
clean_words(words) == [i \in 1..Len(words) |-> Replace(Lower(words[i]))]

\* QueryProcessor._clean_query
clean_query(query) == clean_words(Words(query))

HashSeeds == {"s0", "s1"}

Reverse(q) == [i \in 1..Len(q) |-> q[Len(q) + 1 - i]]

\* the iteration order of a set of str under a hash seed
HashOrder(s) ==
    LET order == <<"python", "sql", "years", "healthcare", "developereloper",
                   "experienceerience", "5plus", "3-5", "minimum", "senior",
                   "junior", "mid", "lead">>
    IN IF s = "s0" THEN order ELSE Reverse(order)

\* list(set(...)) in a process with hash seed s
ListOfSet(S, s) == SelectSeq(HashOrder(s), LAMBDA x : x \in S)

stopwords == {"need", "want", "looking", "for", "someone", "with", "the", "and", "in"}

\* the words of the model with len(word) <= 2
ShortWords == NumberWords \cup {"in"}

\* QueryProcessor._extract_keywords (no word of the model is a key of SKILL_SYNONYMS)
extract_keywords(cleaned, s) ==
    LET keywords == {w \in SeqRange(cleaned) : w \notin ShortWords /\ w \notin stopwords}
    IN ListOfSet(keywords, s)

known_skills == {"python", "sql", "react", "java", "django"}

\* QueryProcessor._identify_skills: the known skills that occur in the query or
\* among the keywords
identify_skills(cleaned, keywords, s) ==
    LET in_query == {k \in known_skills : \E w \in SeqRange(cleaned) : Substr(k, w)}
        in_keywords == {k \in SeqRange(keywords) : k \in known_skills}
    IN ListOfSet(in_query \cup in_keywords, s)

NoRequirements == [has_min |-> FALSE, min_years |-> 0, has_max |-> FALSE, max_years |-> 0]

\* (?:years?|yrs?) at the start of a word
YearWord(w) == w \in {"years", "year", "yrs", "yr"}

\* the digits a word ends with ("" when it ends otherwise)
TrailingDigits(w) == IF w \in NumberWords THEN w ELSE IF w = "3-5" THEN "5" ELSE ""

NoMatch == [matched |-> FALSE, min |-> 0, max |-> 0]
Match(lo, hi) == [matched |-> TRUE, min |-> lo, max |-> hi]

\* re.findall(r'(\d+)\s*\+?\s*(?:years?|yrs?)', query)[0]
numeric_years(words) ==
    LET hits == {i \in 1..(Len(words) - 1) :
                    TrailingDigits(words[i]) # "" /\ YearWord(words[i + 1])}
        first == CHOOSE i \in hits : \A j \in hits : i <= j
    IN IF hits = {} THEN NoMatch ELSE Match(ToInt(TrailingDigits(words[first])), 0)

\* re.findall(r'(?:minimum|min|at least)\s*(\d+)\s*(?:years?|yrs?)', query)[0]
minimum_years(words) ==
    LET hits == {i \in 1..(Len(words) - 2) :
                    /\ \/ words[i] \in {"minimum", "min"}
                       \/ words[i] = "least" /\ i > 1 /\ words[i - 1] = "at"
                    /\ words[i + 1] \in NumberWords
                    /\ YearWord(words[i + 2])}
        first == CHOOSE i \in hits : \A j \in hits : i <= j
    IN IF hits = {} THEN NoMatch ELSE Match(ToInt(words[first + 1]), 0)

\* re.findall(r'(\d+)-(\d+)\s*(?:years?|yrs?)', query)[0]
range_years(words) ==
    IF \E i \in 1..(Len(words) - 1) : words[i] = "3-5" /\ YearWord(words[i + 1])
    THEN Match(3, 5) ELSE NoMatch

\* re.findall of a level pattern: some word contains one of the alternatives
level(words, alternatives, lo, hi) ==
    IF \E w \in SeqRange(words), a \in alternatives : Substr(a, w)
    THEN Match(lo, hi) ELSE NoMatch

\* self.experience_patterns with what a match of each assigns, in list order
experience_patterns(words) ==
    << [req_type |-> "min_years", m |-> numeric_years(words)],
       [req_type |-> "min_years", m |-> minimum_years(words)],
       [req_type |-> "range_years", m |-> range_years(words)],
       [req_type |-> "senior_level", m |-> level(words, {"senior", "sr"}, 5, 0)],
       [req_type |-> "junior_level", m |-> level(words, {"junior", "jr", "entry"}, 0, 2)],
       [req_type |-> "mid_level", m |-> level(words, {"mid", "middle"}, 3, 0)],
       [req_type |-> "lead_level",
        m |-> level(words, {"lead", "principal", "architect"}, 5, 0)] >>

SetsMin(p) == p.req_type # "junior_level"
SetsMax(p) == p.req_type \in {"range_years", "junior_level"}

RECURSIVE apply_patterns(_, _)
\* the loop of _extract_experience_requirements: every matching pattern assigns
\* its keys, overwriting what an earlier pattern assigned
apply_patterns(patterns, requirements) ==
    IF patterns = <<>> THEN requirements
    ELSE LET p == Head(patterns)
             r1 == IF p.m.matched /\ SetsMin(p)
                   THEN [requirements EXCEPT !.has_min = TRUE, !.min_years = p.m.min]
                   ELSE requirements
             r2 == IF p.m.matched /\ SetsMax(p)
                   THEN [r1 EXCEPT !.has_max = TRUE, !.max_years = p.m.max]
                   ELSE r1
         IN apply_patterns(Tail(patterns), r2)

\* QueryProcessor._extract_experience_requirements
extract_experience_requirements(cleaned) ==
    apply_patterns(experience_patterns(cleaned), NoRequirements)

\* DOMAIN_KEYWORDS, in dict order, restricted to the words of the model
domain_keywords ==
    << [domain |-> "healthcare", keywords |-> {"medical", "health"}],
       [domain |-> "fintech", keywords |-> {"banking", "financial"}] >>

\* QueryProcessor._identify_domain_context: a domain keyword occurs in the
\* query text or is one of the keywords
identify_domain_context(cleaned, keywords) ==
    LET hit(d) == \/ \E dk \in d.keywords, w \in SeqRange(cleaned) : Substr(dk, w)
                  \/ d.keywords \cap SeqRange(keywords) # {}
        found == SelectSeq(domain_keywords, hit)
    IN [i \in 1..Len(found) |-> found[i].domain]

\* QueryProcessor.process_query from _clean_query's result on, in a process
\* with hash seed s
process_words(words, s) ==
    LET cleaned == clean_words(words)
        keywords == extract_keywords(cleaned, s)
    IN [cleaned |-> cleaned,
        keywords |-> keywords,
        skill_terms |-> identify_skills(cleaned, keywords, s),
        experience_requirements |-> extract_experience_requirements(cleaned),
        domain_context |-> identify_domain_context(cleaned, keywords)]

\* QueryProcessor.process_query in a process with hash seed s
process_query(query, s) == [original |-> query] @@ process_words(Words(query), s)

(***************************************************************************)
(* backend/rag.py: EmployeeRAG.enhanced_search.  Scores are in hundredths. *)
(***************************************************************************)
Min(a, b) == IF a <= b THEN a ELSE b
Max(a, b) == IF a >= b THEN a ELSE b

Take(q, n) == SubSeq(q, 1, Min(Max(n, 0), Len(q)))

\* f"{query.lower().strip()}_{top_k}"
cache_key(query, top_k) == LowerStrip(query) \o "_" \o ToStr(top_k)

\* EmployeeRAG._create_search_query_text: the components joined by " | "; an
\* empty list or min_years = 0 leaves its component out
create_search_query_text(pq) ==
    [cleaned |-> pq.cleaned,
     skills |-> pq.skill_terms,
     domains |-> pq.domain_context,
     min_years |-> IF pq.experience_requirements.has_min
                   THEN pq.experience_requirements.min_years ELSE 0]

\* the similarities the provider's vectors give; unit vectors have inner
\* products in [-1, 1], and "far" puts the query opposite to every row
Geometries == {"tied", "ann", "bob", "order", "far"}

\* the cosine, in hundredths, between the query vector and the vector of a
\* row: the provider is a function of the two texts
Cosine(g, search_query, row) ==
    LET name == row.text[1][2]
        ann_near == IF name = "Ann" THEN 60 ELSE 20
        bob_near == IF name = "Bob" THEN 60 ELSE 20
    IN CASE g = "tied" -> 50
         [] g = "far" -> -60
         [] g = "ann" -> ann_near
         [] g = "bob" -> bob_near
         [] OTHER -> IF search_query.skills = <<"sql", "python">> THEN bob_near ELSE ann_near

\* np.dot(query_embedding, row) for a query vector of length 1
Dot(g, search_query, row) == (Cosine(g, search_query, row) * row.norm) \div 100

RECURSIVE TopFirst(_, _, _)
\* the indices S by descending score; of two equal scores the higher index comes
\* first when hi, the lower one otherwise
TopFirst(S, score, hi) ==
    IF S = {} THEN <<>>
    ELSE LET best == CHOOSE i \in S : \A j \in S \ {i} :
                        \/ score[i] > score[j]
                        \/ score[i] = score[j] /\ (IF hi THEN i > j ELSE i < j)
         IN <<best>> \o TopFirst(S \ {best}, score, hi)

\* Employee.dict() (pydantic)
Employee_dict(emp) == emp

\* EmployeeRAG._semantic_search: the candidates, each emp.dict() with its
\* similarity_score.  np.argsort(...)[::-1] puts the higher index first among
\* equal similarities; the faiss build decides for its own search
semantic_search(r, pq, top_k, g, tie) ==
    LET search_query == create_search_query_text(pq)
        rows == IF r.faiss_active /\ r.faiss_index.some
                THEN r.faiss_index.rows ELSE r.employee_embeddings.rows
        similarities == [i \in 1..Len(rows) |-> Dot(g, search_query, rows[i])]
        hi == IF r.faiss_active /\ r.faiss_index.some THEN tie = "high" ELSE TRUE
        top_indices == Take(TopFirst(1..Len(rows), similarities, hi), top_k)
    IN [n \in 1..Len(top_indices) |->
          Employee_dict(r.employees[top_indices[n]])
             @@ [similarity_score |-> similarities[top_indices[n]]]]

\* number of query skills found in one of the employee's skills
skill_match_count(emp, pq) ==
    Cardinality({i \in 1..Len(pq.skill_terms) :
                    \E j \in 1..Len(emp.skills) :
                        Substr(Lower(pq.skill_terms[i]), Lower(emp.skills[j]))})

RECURSIVE SortedByScore(_)
\* sorted(candidates, key=final_score, reverse=True): stable
SortedByScore(q) ==
    IF q = <<>> THEN <<>>
    ELSE LET x == Head(q)
             rest == SortedByScore(Tail(q))
         IN SelectSeq(rest, LAMBDA y : y.final_score > x.final_score)
            \o <<x>>
            \o SelectSeq(rest, LAMBDA y : y.final_score <= x.final_score)

\* EmployeeRAG._apply_advanced_filtering without its final sort
score_candidates(candidates, pq) ==
    LET exp_req == pq.experience_requirements
        scored(emp) ==
            LET base == IF exp_req.has_min /\ exp_req.min_years # 0
                           /\ emp.experience_years < exp_req.min_years
                        THEN emp.similarity_score - 50
                        ELSE emp.similarity_score + 30
                matches == skill_match_count(emp, pq)
            IN emp @@ [skill_match_count |-> matches, final_score |-> base + matches * 40]
    IN [i \in 1..Len(candidates) |-> scored(candidates[i])]

\* EmployeeRAG._apply_advanced_filtering
apply_advanced_filtering(candidates, pq) == SortedByScore(score_candidates(candidates, pq))

\* EmployeeRAG._generate_match_reasons
generate_match_reasons(employee, pq) ==
    LET exp_req == pq.experience_requirements
        has(skill) == \E j \in 1..Len(employee.skills) :
                          Substr(Lower(skill), Lower(employee.skills[j]))
        matching == SelectSeq(pq.skill_terms, has)
        skills == [i \in 1..Len(matching) |-> [reason |-> "Has skill", what |-> matching[i]]]
        meets == IF exp_req.has_min /\ exp_req.min_years # 0
                    /\ employee.experience_years >= exp_req.min_years
                 THEN << [reason |-> "Meets experience",
                          what |-> ToStr(employee.experience_years)] >>
                 ELSE <<>>
    IN skills \o meets

\* EmployeeRAG._calculate_confidence (the skill ratio times 30 is whole for the
\* one or two skill terms of the model's queries)
calculate_confidence(employee, pq) ==
    LET exp_req == pq.experience_requirements
        similarity == Min(employee.similarity_score, 45)
        skill == (employee.skill_match_count * 30) \div Max(Len(pq.skill_terms), 1)
        experience == IF exp_req.has_min /\ exp_req.min_years # 0
                         /\ employee.experience_years >= exp_req.min_years
                      THEN 20 ELSE 10
    IN Min(similarity + skill + experience, 100)

\* SearchResult(employee=..., relevance_score=..., match_reasons=..., confidence=...)
SearchResult(emp_data, match_reasons, confidence) ==
    [employee |-> emp_data,
     relevance_score |-> emp_data.final_score,
     match_reasons |-> match_reasons,
     confidence |-> confidence]

\* the provider answers create_query_embedding
QueryEmbedWorks(e, strategy) == EmbedWorks(e, strategy)

Returned(value) == [raised |-> FALSE, value |-> value]
Raised == [raised |-> TRUE, value |-> <<>>]

\* mutant of the dump: SearchResult is a pydantic model with model_dump()
dump_results_pydantic(detailed_results) == [raised |-> FALSE, value |-> detailed_results]

\* [r.model_dump() for r in detailed_results]: SearchResult is a dataclass
\* without model_dump, so the comprehension raises AttributeError on the first
\* element
dump_results(detailed_results) ==
    IF detailed_results = <<>> THEN [raised |-> FALSE, value |-> <<>>]
    ELSE [raised |-> TRUE, value |-> <<>>]

\* the fields of the dataclass SearchResult
SearchResultFields == {"employee", "relevance_score", "match_reasons", "confidence"}

\* mutant of the conversion of a cache hit: an element that is no SearchResult
\* is skipped and the others are returned
cached_results_partial(cached) ==
    [raised |-> FALSE,
     value |-> SelectSeq(cached.items, LAMBDA item : DOMAIN item = SearchResultFields)]

\* the conversion of a cache hit in enhanced_search: iterating a number, and
\* SearchResult(**item) on anything but a dict of exactly the four fields,
\* raise TypeError; the list built so far is dropped
cached_results(cached) ==
    IF cached.type = "int" THEN [raised |-> TRUE, value |-> <<>>]
    ELSE IF \E i \in 1..Len(cached.items) : DOMAIN cached.items[i] # SearchResultFields
    THEN [raised |-> TRUE, value |-> <<>>]
    ELSE [raised |-> FALSE, value |-> cached.items]

\* nothing found in the cache
NoFound == [hit |-> FALSE, value |-> PyList(<<>>)]

\* EmployeeRAG.enhanced_search on instance r whose self._cache is co, over the
\* in-process store s or the external entries rs, at time t: [outcome, store,
\* redis, active, computed, candidates, cached_for, found].  A cache write that
\* raises is dropped by the except clause.  cached_for and found are history:
\* the dataset the served entry was written for (a MemoryCache belongs to the
\* instance) and what the cache returned
enhanced_search(r, co, s, rs, query, top_k, t, hs, g, tie, e) ==
    IF ~is_active(r)
    THEN [outcome |-> Returned(<<>>), store |-> s, redis |-> rs, active |-> FALSE,
          computed |-> FALSE, candidates |-> <<>>, cached_for |-> <<>>,
          found |-> NoFound]
    ELSE LET key == cache_key(query, top_k)
             got == IF co.kind = "redis"
                    THEN [store |-> s] @@ RedisCache_get(rs, key, t)
                    ELSE MemoryCache_get(s, key, t) @@ [written_for |-> r.employees]
             pq == process_query(query, hs)
             semantic_results == semantic_search(r, pq, top_k * 2, g, tie)
             filtered_results == apply_advanced_filtering(semantic_results, pq)
             top == Take(filtered_results, top_k)
             detailed_results ==
                 [i \in 1..Len(top) |->
                    SearchResult(top[i], generate_match_reasons(top[i], pq),
                                 calculate_confidence(top[i], pq))]
             dumped == dump_results(detailed_results)
             found == IF got.hit THEN [hit |-> TRUE, value |-> got.value] ELSE NoFound
             results == cached_results(found.value)
         IN IF found.hit /\ Truthy(found.value) /\ ~results.raised
            THEN [outcome |-> Returned(results.value), store |-> got.store, redis |-> rs,
                  active |-> TRUE, computed |-> FALSE, candidates |-> <<>>,
                  cached_for |-> got.written_for, found |-> found]
            ELSE IF ~QueryEmbedWorks(e, r.embedding_strategy)
            THEN [outcome |-> Raised, store |-> got.store, redis |-> rs, active |-> TRUE,
                  computed |-> TRUE, candidates |-> <<>>, cached_for |-> <<>>,
                  found |-> found]
            ELSE [outcome |-> Returned(detailed_results),
                  store |-> IF dumped.raised \/ co.kind = "redis" THEN got.store
                            ELSE MemoryCache_set(got.store, key, PyList(dumped.value), 0, t),
                  redis |-> IF dumped.raised \/ co.kind # "redis" THEN rs
                            ELSE RedisCache_set(rs, co, key, PyList(dumped.value), 0, t,
                                                r.employees),
                  active |-> TRUE, computed |-> TRUE, candidates |-> semantic_results,
                  cached_for |-> <<>>, found |-> found]

(***************************************************************************)
(* backend/gemini_rag.py: GeminiEmployeeRAG.                                *)
(***************************************************************************)
\* GeminiEmployeeRAG._generate_skill_context on the skills of the model
gemini_generate_skill_context(emp) ==
    LET skills == {Lower(x) : x \in SeqRange(emp.skills)}
        fullstack == IF {"python", "javascript", "react"} \cap skills # {}
                        /\ {"django", "flask", "nodejs", "express"} \cap skills # {}
                     THEN <<"full-stack web application developer">> ELSE <<>>
        frontend == IF {"react", "vue", "angular", "typescript", "css"} \cap skills # {}
                    THEN <<"frontend user interface specialist">> ELSE <<>>
    IN fullstack \o frontend

\* GeminiEmployeeRAG._generate_domain_context on the projects of the model
gemini_generate_domain_context(emp) ==
    LET projects == {Lower(x) : x \in SeqRange(emp.projects)}
        health == IF \E p \in projects : Substr("medical", p)
                  THEN <<"healthcare and medical systems">> ELSE <<>>
        fin == IF \E p \in projects : Substr("banking", p)
               THEN <<"financial technology and services">> ELSE <<>>
    IN health \o fin

\* GeminiEmployeeRAG._prepare_embeddings: the text of one employee
gemini_employee_text(emp) ==
    << <<"Employee", emp.name>>,
       <<"Technical Skills", emp.skills>>,
       <<"Professional Experience", emp.experience_years>>,
       <<"Project Portfolio", emp.projects>>,
       <<"Current Status", emp.availability>> >>
    \o (IF gemini_generate_skill_context(emp) # <<>>
        THEN << <<"Specialization Areas", gemini_generate_skill_context(emp)>> >> ELSE <<>>)
    \o (IF gemini_generate_domain_context(emp) # <<>>
        THEN << <<"Domain Expertise", gemini_generate_domain_context(emp)>> >> ELSE <<>>)

NoGrag == [constructed |-> "none", employees |-> <<>>, employee_embeddings |-> <<>>,
           query_cache |-> <<>>]

\* GeminiEmployeeRAG.__init__: raises when the client is not available or the
\* batch embedding fails
GeminiEmployeeRAG_init(emps, e) ==
    IF e.gem = "ok" /\ e.gemEmbed
    THEN [constructed |-> "ok", employees |-> emps,
          employee_embeddings |->
              [i \in 1..Len(emps) |-> [model |-> "gemini-embedding-001",
                                       text |-> gemini_employee_text(emps[i]),
                                       norm |-> ProviderNorm("gemini")]],
          query_cache |-> <<>>]
    ELSE [NoGrag EXCEPT !.constructed = "raised"]

cache_size_limit == 2     \* DEFAULT_CACHE_SIZE_LIMIT (100 in shared_models.py:29)

\* mutant of the copy: the candidate is the stored record itself
dict_copy_alias(emp) == [stored |-> TRUE, items |-> emp]

\* self.employees[idx].copy(): a new dict with the items of the record; stored
\* says whether writes to the candidate reach the record of the instance
dict_copy(emp) == [stored |-> FALSE, items |-> emp]

\* self.employees after a call has written the scoring fields to its
\* candidates
employees_after(emps, candidates) ==
    [i \in 1..Len(emps) |->
        IF dict_copy(emps[i]).stored /\ (\E n \in 1..Len(candidates) : candidates[n].id = emps[i].id)
        THEN CHOOSE c \in SeqRange(candidates) : c.id = emps[i].id
        ELSE emps[i]]

\* GeminiEmployeeRAG._semantic_search_with_gemini
semantic_search_with_gemini(gr, pq, top_k, g) ==
    LET search_query == create_search_query_text(pq)
        rows == gr.employee_embeddings
        similarities == [i \in 1..Len(rows) |-> Dot(g, search_query, rows[i])]
        top_indices == Take(TopFirst(1..Len(rows), similarities, TRUE), top_k)
    IN [n \in 1..Len(top_indices) |->
          [similarity_score |-> similarities[top_indices[n]]]
             @@ dict_copy(gr.employees[top_indices[n]]).items]

\* the domains of the query that the employee's projects mention
domain_match_count(emp, pq) ==
    Cardinality({i \in 1..Len(pq.domain_context) :
        \E d \in SeqRange(domain_keywords) :
            /\ d.domain = pq.domain_context[i]
            /\ \E k \in d.keywords, p \in SeqRange(emp.projects) : Substr(k, Lower(p))})

\* GeminiEmployeeRAG._apply_advanced_filtering
gemini_apply_advanced_filtering(candidates, pq) ==
    LET exp_req == pq.experience_requirements
        scored(emp) ==
            LET min_part == IF ~exp_req.has_min THEN 0
                            ELSE IF emp.experience_years >= exp_req.min_years THEN 30 ELSE -50
                max_part == IF ~exp_req.has_max THEN 0
                            ELSE IF emp.experience_years <= exp_req.max_years THEN 20 ELSE -20
                matches == skill_match_count(emp, pq)
                avail == IF emp.availability = "available" THEN 10
                         ELSE IF emp.availability = "busy" THEN -20 ELSE 0
            IN [final_score |-> emp.similarity_score + min_part + max_part
                                   + matches * 40 + domain_match_count(emp, pq) * 30
                                   + avail,
                skill_match_count |-> matches] @@ emp
    IN SortedByScore([i \in 1..Len(candidates) |-> scored(candidates[i])])

\* GeminiEmployeeRAG._generate_match_reasons
gemini_generate_match_reasons(employee, pq) ==
    LET exp_req == pq.experience_requirements
        has(skill) == \E j \in 1..Len(employee.skills) :
                          Substr(Lower(skill), Lower(employee.skills[j]))
        matching == SelectSeq(pq.skill_terms, has)
        first(skill) == employee.skills[CHOOSE j \in 1..Len(employee.skills) :
                            /\ Substr(Lower(skill), Lower(employee.skills[j]))
                            /\ \A k \in 1..(j - 1) :
                                  ~Substr(Lower(skill), Lower(employee.skills[k]))]
        skills == [i \in 1..Len(matching) |->
                      [reason |-> "Has required skill", what |-> first(matching[i])]]
        meets == IF exp_req.has_min /\ employee.experience_years >= exp_req.min_years
                 THEN << [reason |-> "Meets experience requirement",
                          what |-> ToStr(employee.experience_years)] >>
                 ELSE <<>>
        hit(d) == \E x \in SeqRange(domain_keywords) :
                      /\ x.domain = d
                      /\ \E k \in x.keywords, p \in SeqRange(employee.projects) :
                            Substr(k, Lower(p))
        found == SelectSeq(pq.domain_context, hit)
        domains == [i \in 1..Len(found) |-> [reason |-> "Has domain experience",
                                             what |-> found[i]]]
        avail == IF employee.availability = "available"
                 THEN << [reason |-> "Currently available", what |-> ""] >> ELSE <<>>
    IN skills \o meets \o domains \o avail

\* GeminiEmployeeRAG._calculate_confidence
gemini_calculate_confidence(employee, pq) ==
    LET exp_req == pq.experience_requirements
        similarity == Min(employee.similarity_score, 45)
        skill == (employee.skill_match_count * 30) \div Max(Len(pq.skill_terms), 1)
        experience == IF exp_req.has_min
                      THEN (IF employee.experience_years >= exp_req.min_years THEN 20 ELSE 0)
                      ELSE 10
        domain == IF pq.domain_context = <<>> THEN 0
                  ELSE (domain_match_count(employee, pq) * 5) \div Len(pq.domain_context)
    IN Min(similarity + skill + experience + domain, 100)

QueryCacheKeys(qc) == {qc[i].key : i \in 1..Len(qc)}

\* mutant of GeminiEmployeeRAG.enhanced_search: the cache key leaves top_k out
gemini_cache_key_no_k(query, top_k) == LowerStrip(query)

\* cache_key of GeminiEmployeeRAG.enhanced_search
gemini_cache_key(query, top_k) == cache_key(query, top_k)

\* mutant of GeminiEmployeeRAG.enhanced_search: a failed embed call leaves an
\* empty result in the cache under the key of the call
gemini_enhanced_search_negative_caching(gr, query, top_k, hs, g, e) ==
    LET key == gemini_cache_key(query, top_k)
        pq == process_query(query, hs)
        semantic_results == semantic_search_with_gemini(gr, pq, top_k * 2, g)
        filtered_results == gemini_apply_advanced_filtering(semantic_results, pq)
        top == Take(filtered_results, top_k)
        detailed_results ==
            [i \in 1..Len(top) |->
               SearchResult(top[i], gemini_generate_match_reasons(top[i], pq),
                            gemini_calculate_confidence(top[i], pq))]
        kept == IF Len(gr.query_cache) >= cache_size_limit
                THEN Tail(gr.query_cache) ELSE gr.query_cache
    IN IF key \in QueryCacheKeys(gr.query_cache)
       THEN [outcome |-> Returned((CHOOSE c \in SeqRange(gr.query_cache) : c.key = key).value),
             grag |-> gr, computed |-> FALSE, candidates |-> <<>>]
       ELSE IF ~e.gemEmbed
       THEN [outcome |-> Raised,
             grag |-> [gr EXCEPT !.query_cache = Append(kept, [key |-> key, value |-> <<>>])],
             computed |-> TRUE, candidates |-> <<>>]
       ELSE [outcome |-> Returned(detailed_results),
             grag |-> [gr EXCEPT !.query_cache =
                          Append(kept, [key |-> key, value |-> detailed_results]),
                                 !.employees = employees_after(gr.employees,
                                                               filtered_results)],
             computed |-> TRUE, candidates |-> semantic_results]

\* GeminiEmployeeRAG.enhanced_search on instance gr: [outcome, grag, computed,
\* candidates]; self._query_cache is a dict of the instance
gemini_enhanced_search(gr, query, top_k, hs, g, e) ==
    LET key == gemini_cache_key(query, top_k)
        pq == process_query(query, hs)
        semantic_results == semantic_search_with_gemini(gr, pq, top_k * 2, g)
        filtered_results == gemini_apply_advanced_filtering(semantic_results, pq)
        top == Take(filtered_results, top_k)
        detailed_results ==
            [i \in 1..Len(top) |->
               SearchResult(top[i], gemini_generate_match_reasons(top[i], pq),
                            gemini_calculate_confidence(top[i], pq))]
        kept == IF Len(gr.query_cache) >= cache_size_limit
                THEN Tail(gr.query_cache) ELSE gr.query_cache
    IN IF key \in QueryCacheKeys(gr.query_cache)
       THEN [outcome |-> Returned((CHOOSE c \in SeqRange(gr.query_cache) : c.key = key).value),
             grag |-> gr, computed |-> FALSE, candidates |-> <<>>]
       ELSE IF ~e.gemEmbed
       THEN [outcome |-> Raised, grag |-> gr, computed |-> TRUE, candidates |-> <<>>]
       ELSE [outcome |-> Returned(detailed_results),
             grag |-> [gr EXCEPT !.query_cache =
                          Append(kept, [key |-> key, value |-> detailed_results]),
                                 !.employees = employees_after(gr.employees,
                                                               filtered_results)],
             computed |-> TRUE, candidates |-> semantic_results]

(***************************************************************************)
(* backend/response_generator.py: ResponseGenerator.  A query and a cache  *)
(* key are the sequences of their characters.                              *)
(***************************************************************************)
SummaryKeyCandidates == 2   \* candidates[:5] in _summary_cache_key
SummaryKeyLength == 13      \* key[:512] in _summary_cache_key

\* str.strip()
RECURSIVE LStrip(_)
LStrip(q) == IF q # <<>> /\ Head(q) = " " THEN LStrip(Tail(q)) ELSE q

Strip(q) == Reverse(LStrip(Reverse(LStrip(q))))

\* str.lower() over the characters of the model
LowerChars(q) == [i \in 1..Len(q) |-> IF q[i] = "A" THEN "a" ELSE q[i]]

\* sep.join(parts)
RECURSIVE Join(_, _)
Join(parts, sep) ==
    IF parts = <<>> THEN <<>>
    ELSE IF Len(parts) = 1 THEN parts[1]
    ELSE parts[1] \o sep \o Join(Tail(parts), sep)

\* ResponseGenerator._summary_cache_key
summary_cache_key(query, candidates) ==
    LET first == Take(candidates, SummaryKeyCandidates)
        ids == [i \in 1..Len(first) |-> <<ToStr(first[i].id)>>]
        key == <<"q", ":">> \o LowerChars(Strip(query))
                  \o <<"|", "i", "d", "s", ":">> \o Join(ids, <<",">>)
    IN Take(key, SummaryKeyLength)

\* ResponseGenerator._prepare_candidate_data
prepare_candidate_data(search_results) ==
    [i \in 1..Len(search_results) |->
        [final_score |-> search_results[i].relevance_score,
         match_reasons |-> search_results[i].match_reasons,
         confidence |-> search_results[i].confidence] @@ search_results[i].employee]

\* the ids of a list of candidates, in order
CandidateIds(candidates) == [i \in 1..Len(candidates) |-> candidates[i].id]

\* the messages of a response; made_for is history: the candidates the text
\* was written about
NoCandidatesMessage == [kind |-> "no_candidates", made_for |-> <<>>]
AiSummary(query, top_candidates) == [kind |-> "ai", made_for |-> CandidateIds(top_candidates)]
FallbackMessage(top_candidates) ==
    [kind |-> "fallback", made_for |-> CandidateIds(top_candidates)]

\* self._summary_cache, a MemoryCache with the prefix "ai:summary"
SummaryPk(key) == <<"ai:summary", key>>

summary_cache_get(s, key, t) ==
    LET pk == SummaryPk(key) IN
    IF pk \notin StoreKeys(s)
    THEN [store |-> s, hit |-> FALSE, value |-> NoCandidatesMessage]
    ELSE LET item == s[IndexOf(s, pk)] IN
         IF t - item.ts > item.ttl
         THEN [store |-> RemoveKey(s, pk), hit |-> FALSE, value |-> NoCandidatesMessage]
         ELSE [store |-> s, hit |-> TRUE, value |-> item.value]

summary_cache_set(s, key, value, t) ==
    LET kept == IF Len(s) >= Capacity THEN Tail(s) ELSE s
    IN DictSet(kept, [pk |-> SummaryPk(key), ts |-> t, ttl |-> DefaultTTL, value |-> value])

\* what the AI client does during one call
AiOutcomes == {"unavailable", "ok", "raises"}

\* ResponseGenerator.generate_response over the summary cache s at time t:
\* [store, candidates, message, key, cached]
generate_response(s, query, search_results, ai, t) ==
    LET top_candidates == prepare_candidate_data(search_results)
        skey == summary_cache_key(query, top_candidates)
        cached == summary_cache_get(s, skey, t)
    IN IF top_candidates = <<>>
       THEN [store |-> s, candidates |-> <<>>, message |-> NoCandidatesMessage,
             key |-> <<>>, cached |-> FALSE]
       ELSE IF ai = "unavailable"
       THEN [store |-> s, candidates |-> top_candidates,
             message |-> FallbackMessage(top_candidates), key |-> <<>>, cached |-> FALSE]
       ELSE IF cached.hit
       THEN [store |-> cached.store, candidates |-> top_candidates,
             message |-> cached.value, key |-> skey, cached |-> TRUE]
       ELSE IF ai = "raises"
       THEN [store |-> cached.store, candidates |-> top_candidates,
             message |-> FallbackMessage(top_candidates), key |-> skey,
             cached |-> FALSE]
       ELSE [store |-> summary_cache_set(cached.store, skey,
                                         AiSummary(query, top_candidates), t),
             candidates |-> top_candidates,
             message |-> AiSummary(query, top_candidates), key |-> skey,
             cached |-> FALSE]

NoResponse == [query |-> <<>>, candidates |-> <<>>, message |-> NoCandidatesMessage,
               key |-> <<>>, cached |-> FALSE]

(***************************************************************************)
(* tests/api_client.py: retry_on_failure and the calls of RobustAPIClient  *)
(* that it wraps.                                                          *)
(***************************************************************************)
health_check_max_retries == 3
health_check_delay == 1000            \* 1.0 s, in milliseconds
search_candidates_max_retries == 2
search_candidates_delay == 500        \* 0.5 s, in milliseconds

\* the arguments of the two decorators; backoff is num/den (2.0 and 1.5)
RetryArgs(func) ==
    IF func = "health_check"
    THEN [max_retries |-> health_check_max_retries, delay |-> health_check_delay,
          backoff |-> [num |-> 2, den |-> 1]]
    ELSE [max_retries |-> search_candidates_max_retries, delay |-> search_candidates_delay,
          backoff |-> [num |-> 3, den |-> 2]]

WrappedFunctions == {"health_check", "search_candidates"}

\* the exceptions the wrapper catches: ConnectionError, Timeout and every
\* other subclass of requests.exceptions.RequestException
RequestExceptions == {"Timeout", "ConnectionError", "RequestException"}
\* an exception outside that hierarchy
OtherExceptions == {"ValueError"}

\* what one requests.get / requests.post gives: a response with a status code
\* and a body, or an exception.  json is what response.json() does with the
\* body: it returns the data, or raises the decode error, which is a
\* RequestException or a plain ValueError depending on the requests release.
Statuses == {200, 500}
Exchanges ==
    [kind : {"response"}, status : Statuses, json : {"data", "RequestException", "ValueError"},
     error : {None}]
    \cup [kind : {"raise"}, status : {0}, json : {None},
          error : RequestExceptions \cup OtherExceptions]

NoException == [type |-> None, attempt |-> 0]
NoAPIResponse == [success |-> FALSE, data |-> None, error |-> None, status_code |-> 0,
                  retry_count |-> 0]

\* dataclass APIResponse
APIResponse(success, data, error, status_code, retry_count) ==
    [success |-> success, data |-> data, error |-> error, status_code |-> status_code,
     retry_count |-> retry_count]

Returns(value) == [raised |-> FALSE, error |-> NoException, value |-> value]
Raises(type, attempt) ==
    [raised |-> TRUE, error |-> [type |-> type, attempt |-> attempt], value |-> NoAPIResponse]

\* the two except clauses shared by health_check and search_candidates: Timeout
\* and ConnectionError are raised again with the attempt number in the
\* message, anything else leaves the function as it is
reraise(type, retry_count) ==
    IF type \in {"Timeout", "ConnectionError"}
    THEN Raises(type, retry_count + 1)
    ELSE Raises(type, 0)

\* RobustAPIClient.health_check on the exchange x
health_check(x, retry_count) ==
    IF x.kind = "raise" THEN reraise(x.error, retry_count)
    ELSE IF x.status = 200
    THEN IF x.json = "data"
         THEN Returns(APIResponse(TRUE, "data", None, x.status, retry_count))
         ELSE reraise(x.json, retry_count)
    ELSE Returns(APIResponse(FALSE, None, "Health check failed with status", x.status,
                             retry_count))

\* RobustAPIClient.search_candidates on the exchange x
search_candidates(x, retry_count) ==
    IF x.kind = "raise" THEN reraise(x.error, retry_count)
    ELSE IF x.status = 200
    THEN IF x.json = "data"
         THEN Returns(APIResponse(TRUE, "data", None, x.status, retry_count))
         ELSE reraise(x.json, retry_count)
    ELSE Returns(APIResponse(FALSE, IF x.json = "data" THEN "data" ELSE None,
                             "Search failed with status", x.status, retry_count))

\* func(*args, **kwargs, retry_count=attempt)
CallWrapped(func, x, attempt) ==
    IF func = "health_check" THEN health_check(x, attempt) ELSE search_candidates(x, attempt)

\* the wrapper outside a call
IdleWrapper ==
    [pc |-> "idle", func |-> None, attempt |-> 0, current_delay |-> 0,
     last_exception |-> NoException, calls |-> <<>>, seen |-> <<>>, sleeps |-> <<>>,
     result |-> Returns(NoAPIResponse), ncalls |-> 0]

\* wrapper(): the statements before the loop
wrapper_enter(w, func) ==
    [IdleWrapper EXCEPT !.pc = "loop", !.func = func,
                        !.current_delay = RetryArgs(func).delay,
                        !.ncalls = w.ncalls + 1]

\* mutant of wrapper_iteration: the wait stays the same after a failure
wrapper_iteration_fixed_delay(w, x) ==
    LET args == RetryArgs(w.func)
        out == CallWrapped(w.func, x, w.attempt)
        called == [w EXCEPT !.calls = Append(@, w.attempt), !.seen = Append(@, x)]
    IN IF ~out.raised \/ out.error.type \notin RequestExceptions
       THEN [called EXCEPT !.pc = "done", !.result = out]
       ELSE IF w.attempt < args.max_retries
       THEN [called EXCEPT !.last_exception = out.error,
                           !.sleeps = Append(@, w.current_delay),
                           !.attempt = w.attempt + 1]
       ELSE [called EXCEPT !.last_exception = out.error,
                           !.pc = "done",
                           !.result = [raised |-> TRUE, error |-> out.error,
                                       value |-> NoAPIResponse]]

\* one iteration of 'for attempt in range(max_retries + 1)' on the exchange
\* x, with the 'raise last_exception' that follows the last one.  calls, seen
\* and sleeps are history: the retry_count passed to each invocation, the
\* exchange it met, and the arguments of time.sleep.
wrapper_iteration(w, x) ==
    LET args == RetryArgs(w.func)
        out == CallWrapped(w.func, x, w.attempt)
        called == [w EXCEPT !.calls = Append(@, w.attempt), !.seen = Append(@, x)]
    IN IF ~out.raised \/ out.error.type \notin RequestExceptions
       THEN [called EXCEPT !.pc = "done", !.result = out]
       ELSE IF w.attempt < args.max_retries
       THEN [called EXCEPT !.last_exception = out.error,
                           !.sleeps = Append(@, w.current_delay),
                           !.current_delay = (@ * args.backoff.num) \div args.backoff.den,
                           !.attempt = w.attempt + 1]
       ELSE [called EXCEPT !.last_exception = out.error,
                           !.pc = "done",
                           !.result = [raised |-> TRUE, error |-> out.error,
                                       value |-> NoAPIResponse]]

(***************************************************************************)
(* backend/ai_client.py: AIClientManager                                   *)
(***************************************************************************)
\* the clients in the order _initialize_clients looks at them
ClientNames == <<"gemini", "openai">>

\* the text the manager returns when no client answered
StaticFallbackText == [by |-> "manager", variant |-> "static", request |-> "none"]

\* the two calls of main.py: the full prompt and the simpler one
PromptRequests == {"full", "simple"}

\* what a client's generate_response does with a request: it returns one of
\* the texts it can produce, or raises an Exception
ClientBehaviours == {"raise", "text1", "text2"}
ClientText(name, behaviour, request) == [by |-> name, variant |-> behaviour, request |-> request]

\* AIClientManager._initialize_clients: the clients whose is_available() holds,
\* in dict order
initialize_clients(available) ==
    SelectSeq(ClientNames, LAMBDA name : name \in available)

\* 'gemini' in self.clients
HasClient(clients, name) == \E i \in 1..Len(clients) : clients[i] = name

\* AIClientManager._setup_priority
setup_priority(clients) ==
    IF HasClient(clients, "gemini")
    THEN [primary_client |-> "gemini",
          fallback_clients |-> IF HasClient(clients, "openai") THEN <<"openai">> ELSE <<>>]
    ELSE IF HasClient(clients, "openai")
    THEN [primary_client |-> "openai", fallback_clients |-> <<>>]
    ELSE [primary_client |-> None, fallback_clients |-> <<>>]

\* AIClientManager.__init__
AIClientManager(available) ==
    LET clients == initialize_clients(available)
        priority == setup_priority(clients)
    IN [clients |-> clients, primary_client |-> priority.primary_client,
        fallback_clients |-> priority.fallback_clients]

\* the loop over self.fallback_clients from position i on; called is history,
\* the clients invoked so far
RECURSIVE try_fallback_clients(_, _, _, _, _)
try_fallback_clients(fallback_clients, i, request, does, called) ==
    IF i > Len(fallback_clients)
    THEN [raised |-> FALSE, response |-> StaticFallbackText, called |-> called]
    ELSE LET fallback_client == fallback_clients[i]
         IN IF does[fallback_client] # "raise"
            THEN [raised |-> FALSE,
                  response |-> ClientText(fallback_client, does[fallback_client], request),
                  called |-> Append(called, fallback_client)]
            ELSE try_fallback_clients(fallback_clients, i + 1, request, does,
                                      Append(called, fallback_client))

\* mutant of AIClientManager.generate_response: the failure of the last
\* client is raised to the caller
AIClientManager_generate_response_raising(m, request, does) ==
    LET tried == IF m.primary_client # None /\ does[m.primary_client] # "raise"
                 THEN [raised |-> FALSE,
                       response |-> ClientText(m.primary_client, does[m.primary_client], request),
                       called |-> <<m.primary_client>>]
                 ELSE try_fallback_clients(m.fallback_clients, 1, request, does,
                                           IF m.primary_client # None
                                           THEN <<m.primary_client>> ELSE <<>>)
    IN IF tried.response = StaticFallbackText /\ tried.called # <<>>
       THEN [tried EXCEPT !.raised = TRUE]
       ELSE tried

\* AIClientManager.generate_response; does is what each client does with the
\* request
AIClientManager_generate_response(m, request, does) ==
    IF m.primary_client # None /\ does[m.primary_client] # "raise"
    THEN [raised |-> FALSE,
          response |-> ClientText(m.primary_client, does[m.primary_client], request),
          called |-> <<m.primary_client>>]
    ELSE try_fallback_clients(m.fallback_clients, 1, request, does,
                              IF m.primary_client # None
                              THEN <<m.primary_client>> ELSE <<>>)

\* AIClientManager.is_available
AIClientManager_is_available(m) ==
    m.primary_client # None \/ Len(m.fallback_clients) > 0

\* the module-level ai_manager before any call
NoGenerated == [raised |-> FALSE, response |-> StaticFallbackText, called |-> <<>>]

(***************************************************************************)
(* SpecBuild: the dataset changes between process starts; every start      *)
(* constructs an EmployeeRAG over the files the earlier starts left.       *)
(***************************************************************************)
InitBuildVars ==
    /\ employees = BaseEmployees
    /\ disk = [emb |-> NoFile, embMeta |-> NoFile, idx |-> NoFile, idxMeta |-> NoFile]
    /\ rag = NoRag
    /\ env = NoEnv
    /\ nchanges = 0
    /\ nbuilds = 0

InitCacheVars ==
    /\ store = <<>>
    /\ now = 0
    /\ born = [k \in {} |-> 0]
    /\ nops = 0
    /\ op = NoOp
    /\ ret = NoValue
    /\ evicted = None

NoCall == [impl |-> None, query |-> "", top_k |-> 0, strategy |-> None, faiss |-> FALSE,
           active |-> FALSE, computed |-> FALSE,
           outcome |-> [raised |-> FALSE, value |-> <<>>], start |-> 0,
           candidates |-> <<>>, cached_for |-> <<>>, dataset |-> <<>>,
           provider_ok |-> TRUE, failed_at |-> 0, found |-> NoFound]

\* no query processed yet
NoPq == [processed |-> FALSE, cleaned |-> <<>>, keywords |-> <<>>, skill_terms |-> <<>>,
         experience_requirements |-> NoRequirements, domain_context |-> <<>>]

InitQueryVars ==
    /\ qwords = <<>>
    /\ pquery = NoPq

\* the default environment, get_cache not called yet
InitConfigVars ==
    /\ cfg = DefaultConfig
    /\ cacheObj = NoCache
    /\ redis = {}

NThreads == 2          \* threads that call enhanced_search on one instance
MaxThreadCalls == 2    \* calls of one thread in one run

Threads == 1..NThreads

\* a thread outside enhanced_search
IdleThread == [pc |-> "idle", key |-> "", results |-> <<>>, oldest_key |-> "",
               error |-> None, ncalls |-> 0]

\* no response generated yet
InitServiceVars ==
    /\ summaries = [store |-> <<>>, last |-> NoResponse, prev |-> NoResponse, n |-> 0]
    /\ threads = [t \in Threads |-> IdleThread]
    /\ retry = IdleWrapper
    /\ manager = AIClientManager({}) @@
                 [request |-> "none", does |-> [name \in {"gemini", "openai"} |-> "raise"],
                  generated |-> NoGenerated, n |-> 0]

InitRankVars ==
    /\ seed = "s0"
    /\ geometry = "tied"
    /\ faissTie = "high"
    /\ grag = NoGrag
    /\ call = NoCall
    /\ nsearch = 0

InitBuild == InitBuildVars /\ InitCacheVars /\ InitRankVars /\ InitQueryVars /\ InitConfigVars /\ InitServiceVars

\* the dataset is edited: one field of one employee gets another value
ChangeDataset(i, field, value) ==
    /\ nchanges < MaxChanges
    /\ value # employees[i][field]
    /\ employees' = [employees EXCEPT ![i][field] = value]
    /\ nchanges' = nchanges + 1
    /\ UNCHANGED <<disk, rag, env, nbuilds>>
    /\ UNCHANGED cacheVars
    /\ UNCHANGED rankVars
    /\ UNCHANGED queryVars
    /\ UNCHANGED configVars
    /\ UNCHANGED serviceVars

\* a process starts: EmployeeRAG(employees) in the environment e, of which
\* the history keeps kept
ConstructUnder(e, kept) ==
    /\ nbuilds < MaxBuilds
    /\ \E built \in {EmployeeRAG_init(employees, disk, e)} :
          /\ rag' = built.rag
          /\ disk' = built.disk
    /\ env' = kept
    /\ nbuilds' = nbuilds + 1
    /\ store' = <<>>
    /\ UNCHANGED <<employees, nchanges>>
    /\ UNCHANGED <<now, born, nops, op, ret, evicted>>
    /\ UNCHANGED rankVars
    /\ UNCHANGED queryVars
    /\ UNCHANGED configVars
    /\ UNCHANGED serviceVars

Construct(e) == ConstructUnder(e, Providers(e))

NextBuild ==
    \/ \E i \in 1..Len(employees), field \in EditableFields :
          \E value \in FieldValues(field) : ChangeDataset(i, field, value)
    \/ \E e \in PersistEnvs : Construct(e)

SpecBuild == InitBuild /\ [][NextBuild]_vars

(***************************************************************************)
(* SpecPersist: processes start one after the other over the same cache    *)
(* directory while reading and writing its files may fail.                 *)
(***************************************************************************)
\* a strategy constructs (Gemini, or the local one when Gemini is not
\* installed), the embed calls of Gemini may fail, and every load and save
\* of the embedding cache and of the index may fail
FaultEnvs ==
    {e \in AllEnvs :
        /\ Relevant(e)
        /\ e.gem \in {"ok", "unavailable"}
        /\ e.st = "ok" /\ e.stEmbed
        /\ e.metric = "ip"}

NextPersist == \E e \in FaultEnvs : ConstructUnder(e, e)

SpecPersist == InitBuild /\ [][NextPersist]_vars

\* the strategy the construction chooses answers its embed calls
ProviderWorks(e) ==
    LET chosen == initialize_strategy(e)
    IN ~chosen.raised /\ chosen.strategy # None /\ EmbedWorks(e, chosen.strategy)

\* C23: no failure of a load or save of the persisted embeddings or index
\* makes the construction fail.  With a working provider the instance ends
\* active: embeddings not loaded are computed by the provider, an index not
\* loaded is built in memory or, when that fails, searches go brute force,
\* and an active index is never an empty one.
C23_PersistenceNeverFatal ==
    rag.constructed # "none" =>
        /\ rag.constructed = "ok"
        /\ (rag.faiss_active => rag.faiss_index.some /\ rag.employee_embeddings.some)
        /\ (ProviderWorks(env) =>
               /\ is_active(rag)
               /\ (~rag.loadedEmb =>
                      rag.raw_embeddings.rows
                          = prepare_embeddings(rag.embedding_strategy, rag.employee_texts))
               /\ (env.faiss /\ ~rag.loadedIdx /\ env.buildIdx =>
                      rag.faiss_active
                      /\ rag.faiss_index.rows = rag.employee_embeddings.rows)
               /\ (env.faiss /\ ~rag.loadedIdx /\ ~env.buildIdx =>
                      ~rag.faiss_active /\ rag.faiss_index = NoIndex)
               /\ (~env.faiss => ~rag.faiss_active))

\* a start found files that match, could read neither the embeddings nor the
\* index, could save nothing, and ended active on an index built in memory
C23_Witness ==
    /\ nbuilds >= 2 /\ rag.constructed = "ok" /\ ProviderWorks(env)
    /\ env.faiss /\ ~env.loadEmb /\ ~env.readIdx
    /\ env.saveEmb = "nothing" /\ env.saveIdx = "nothing"
    /\ disk.emb.exists /\ disk.embMeta.exists
    /\ embedding_meta_matches(disk.embMeta, rag.embedding_strategy, employees)
    /\ disk.idx.exists /\ disk.idxMeta.exists
    /\ faiss_meta_matches(disk.idxMeta, rag.embedding_strategy, employees, rag.faiss_metric)
    /\ ~rag.loadedEmb /\ ~rag.loadedIdx
    /\ is_active(rag) /\ rag.faiss_active

(***************************************************************************)
(* SpecRank: backend/main.py starts the process and serves searches.       *)
(***************************************************************************)
MaxStarts == 2         \* process starts in one run
MaxSearches == 2       \* enhanced_search calls in one run
MaxTopK == 2           \* largest top_k passed to enhanced_search

TopKs == 0..MaxTopK

RankQueries == {"Python ", "python sql 3 years"}

\* what the environment can do during one start: the providers and faiss vary,
\* reading and building the index may fail, the cache files are writable.  What the start never consults is
\* fixed: nothing besides Gemini when GeminiEmployeeRAG starts, faiss when no
\* embeddings are computed
StartEnvs ==
    {e \in AllEnvs :
        /\ Relevant(e)
        /\ e.gem \in {"ok", "ConnectionError"}
        /\ (e.gem = "ok" /\ e.gemEmbed => e.st = "ok" /\ e.stEmbed /\ ~e.faiss)
        /\ (e.gem = "ok" /\ ~e.gemEmbed => e.st \in {"ok", "unavailable"} /\ ~e.faiss)
        /\ (e.gem # "ok" /\ ~(e.st = "ok" /\ e.stEmbed) => ~e.faiss)
        /\ e.loadEmb
        /\ e.metric = "ip"
        /\ e.saveEmb = "ok" /\ e.saveIdx = "ok"}

\* the hash seeds a start may draw; no set is iterated when nothing can search
SeedsFor(e) ==
    IF (e.gem = "ok" /\ e.gemEmbed) \/ (e.gem # "ok" /\ e.st = "ok" /\ e.stEmbed)
    THEN HashSeeds ELSE {"s0"}

\* the provider's geometry and the faiss build of one run
Providings ==
    {p \in Geometries \X {"low", "high"} : p[2] = "low" => p[1] = "tied"}

InitRank ==
    /\ InitCacheVars
    /\ InitServiceVars
    /\ InitBuildVars
    /\ InitQueryVars
    /\ InitConfigVars
    /\ seed = "s0"
    /\ \E p \in Providings : geometry = p[1] /\ faissTie = p[2]
    /\ grag = NoGrag
    /\ call = NoCall
    /\ nsearch = 0

\* main.py at import: GeminiEmployeeRAG(DATA) is preferred; when it raises,
\* EmployeeRAG(DATA) is constructed and any exception of it is caught
\* (rag_system stays None).  The new process has its own hash seed and an
\* empty in-memory query cache; EmployeeRAG.__init__ takes its cache from
\* get_cache once the strategy is chosen.
Startup(e, s) ==
    /\ nbuilds < MaxStarts
    /\ \E g \in {GeminiEmployeeRAG_init(employees, e)} :
       \E built \in {IF g.constructed = "ok" THEN [rag |-> NoRag, disk |-> disk]
                      ELSE EmployeeRAG_init(employees, disk, e)} :
          /\ grag' = g
          /\ rag' = built.rag
          /\ disk' = built.disk
          /\ cacheObj' = IF g.constructed # "ok" /\ built.rag.constructed = "ok"
                         THEN get_cache(cfg, prefix, DefaultTTL) ELSE NoCache
    /\ seed' = s
    /\ env' = Providers(e)
    /\ nbuilds' = nbuilds + 1
    /\ store' = <<>>
    /\ UNCHANGED <<employees, nchanges, geometry, faissTie, call, nsearch>>
    /\ UNCHANGED queryVars
    /\ UNCHANGED <<cfg, redis>>
    /\ UNCHANGED serviceVars
    /\ UNCHANGED <<now, born, nops, op, ret, evicted>>

\* the instance main.py calls rag_system
rag_system == IF grag.constructed = "ok" THEN "gemini"
              ELSE IF rag.constructed = "ok" THEN "rag" ELSE None

CallKey(c) == [impl |-> c.impl, query |-> c.query, top_k |-> c.top_k,
               strategy |-> c.strategy, faiss |-> c.faiss, active |-> c.active]

\* rag_system.enhanced_search(query, top_k) while the providers answer as in e.
\* provider_ok and failed_at are history: whether the provider of the instance
\* answers during this call, and the start in which a call last raised
SearchUnder(query, top_k, e) ==
    /\ nsearch < MaxSearches
    /\ rag_system # None
    /\ \E via \in {IF rag_system = "gemini"
                    THEN gemini_enhanced_search(grag, query, top_k, seed, geometry, e)
                    ELSE enhanced_search(rag, cacheObj, store, redis, query, top_k, now,
                                         seed, geometry, faissTie, e)} :
          /\ grag' = IF rag_system = "gemini" THEN via.grag ELSE grag
          /\ store' = IF rag_system = "gemini" THEN store ELSE via.store
          /\ redis' = IF rag_system = "gemini" THEN redis ELSE via.redis
          /\ call' =
                [provider_ok |-> IF rag_system = "gemini" THEN e.gemEmbed
                                 ELSE EmbedWorks(e, rag.embedding_strategy),
                 failed_at |-> IF via.outcome.raised THEN nbuilds ELSE call.failed_at,
                 found |-> IF rag_system = "gemini" THEN NoFound ELSE via.found]
                @@
                IF rag_system = "gemini"
                THEN [impl |-> "gemini", query |-> query, top_k |-> top_k,
                      strategy |-> "gemini", faiss |-> FALSE, active |-> TRUE,
                      computed |-> via.computed, outcome |-> via.outcome,
                      start |-> nbuilds, candidates |-> via.candidates,
                      cached_for |-> IF via.computed THEN <<>> ELSE grag.employees,
                      dataset |-> grag.employees]
                ELSE [impl |-> "rag", query |-> query, top_k |-> top_k,
                      strategy |-> rag.embedding_strategy, faiss |-> rag.faiss_active,
                      active |-> via.active,
                      computed |-> via.computed, outcome |-> via.outcome,
                      start |-> nbuilds, candidates |-> via.candidates,
                      cached_for |-> via.cached_for, dataset |-> rag.employees]
    /\ nsearch' = nsearch + 1
    /\ UNCHANGED <<seed, geometry, faissTie>>
    /\ UNCHANGED buildVars
    /\ UNCHANGED queryVars
    /\ UNCHANGED <<cfg, cacheObj>>
    /\ UNCHANGED serviceVars
    /\ UNCHANGED <<now, born, nops, op, ret, evicted>>

\* a search while the providers answer as they did when the process started
Search(query, top_k) == SearchUnder(query, top_k, env)

NextRank ==
    \/ \E e \in StartEnvs : \E s \in SeedsFor(e) : Startup(e, s)
    \/ \E query \in RankQueries, top_k \in TopKs : Search(query, top_k)

SpecRank == InitRank /\ [][NextRank]_vars

(***************************************************************************)
(* Claims about the persisted caches (SpecBuild).                          *)
(***************************************************************************)
\* what a build over the instance's dataset computes with its strategy
FreshRows(r) == prepare_embeddings(r.embedding_strategy, employee_texts(r.employees))

\* C4: a build reuses the persisted embeddings only if they are the embeddings
\* of the current dataset under the current model, and a persisted index only
\* if it indexes those embeddings under the current metric, one row per
\* employee; this after any dataset changes, builds and interrupted saves.
C4_ReuseOnlyIfCurrent ==
    rag.constructed = "ok" =>
        /\ rag.loadedEmb => rag.employee_embeddings.rows = FreshRows(rag)
        /\ rag.loadedIdx =>
              /\ rag.faiss_index.rows = FreshRows(rag)
              /\ rag.faiss_index.metric = rag.faiss_metric
              /\ Len(rag.faiss_index.rows) = Len(rag.employees)

\* C5: a change of one field (skills, projects, experience_years,
\* availability) of one employee changes the dataset fingerprint.
C5_EditChangesFingerprint ==
    [][ nchanges' = nchanges + 1 =>
          dataset_fingerprint(employees') # dataset_fingerprint(employees) ]_vars

\* C16: whenever the instance is active after a build, with embeddings freshly
\* computed or loaded from the persisted cache, the embedding matrix has one
\* row per employee and row i is the embedding of employee i's text.
C16_RowPerEmployee ==
    is_active(rag) =>
        LET rows == rag.employee_embeddings.rows IN
        /\ Len(rows) = Len(rag.employees)
        /\ \A i \in 1..Len(rows) :
              rows[i] = Embed(rag.embedding_strategy, create_employee_text(rag.employees[i]))

(***************************************************************************)
(* Claims about startup and ranking (SpecRank).                            *)
(***************************************************************************)
GemWorks(e) == e.gem = "ok" /\ e.gemEmbed
StWorks(e) == e.st = "ok" /\ e.stEmbed

IsSearchStep == nsearch' = nsearch + 1

\* C6: the strategies are tried in priority order and the first one that both
\* constructs and embeds becomes active: when Gemini works the instance is
\* active with it, and when Gemini fails, for whatever reason, and the local
\* strategy works, the instance is active with the local one.
C6_FirstWorkingStrategyActive ==
    rag.constructed # "none" =>
        /\ (GemWorks(env) => rag.embedding_strategy = "gemini" /\ is_active(rag))
        /\ (~GemWorks(env) /\ StWorks(env) =>
               rag.embedding_strategy = "st" /\ is_active(rag))

\* C7: when every strategy fails at startup the construction completes, the
\* instance is inactive, and a search on it returns the empty list without
\* raising and without computing anything.
C7_AllFailInactive ==
    (rag.constructed # "none" /\ ~GemWorks(env) /\ ~StWorks(env)) =>
        /\ rag.constructed = "ok"
        /\ ~is_active(rag)
        /\ (call.impl = "rag" /\ call.start = nbuilds =>
               ~call.outcome.raised /\ ~call.computed)

\* C8: the outcome of a search on an inactive instance differs from the outcome
\* of every search on an active one, so the caller can tell "unavailable" from
\* "no candidates".
C8_InactiveOutcomeTagged ==
    [][ (IsSearchStep /\ call.impl # None /\ call'.active # call.active)
           => call'.outcome # call.outcome ]_vars

NonIncreasing(v) ==
    \A i \in 1..(Len(v) - 1) : v[i].relevance_score >= v[i + 1].relevance_score

\* C9: for top_k >= 1 the list a search returns, computed or served from the
\* cache, has at most top_k elements in non-increasing order of relevance_score.
C9_AtMostTopKDescending ==
    (call.impl # None /\ call.top_k >= 1 /\ ~call.outcome.raised) =>
        /\ Len(call.outcome.value) <= call.top_k
        /\ NonIncreasing(call.outcome.value)

\* a list of two served from the cache, which the scoring has re-ranked against
\* the order of the similarities
C9_Witness ==
    /\ call.impl = "gemini" /\ ~call.computed /\ call.top_k = 2
    /\ Len(call.outcome.value) = 2
    /\ call.outcome.value[1].relevance_score > call.outcome.value[2].relevance_score
    /\ call.outcome.value[1].employee.similarity_score
          < call.outcome.value[2].employee.similarity_score

\* C10: two searches with the same query and top_k on the same kind of instance
\* over the unchanged dataset return identical lists.
C10_Deterministic ==
    [][ (IsSearchStep /\ call.impl # None /\ CallKey(call') = CallKey(call))
           => call'.outcome = call.outcome ]_vars

\* C11: the confidence of every SearchResult a search returns lies in
\* [0, 100], whatever similarities the index produces, negative ones included.
C11_ConfidenceInRange ==
    (call.impl # None /\ ~call.outcome.raised) =>
        \A i \in 1..Len(call.outcome.value) :
            /\ call.outcome.value[i].confidence >= 0
            /\ call.outcome.value[i].confidence <= 100

\* what the re-scoring of GeminiEmployeeRAG adds besides the minimum-experience
\* and skill terms: the max_years, domain and availability terms
OtherTerms(impl, emp, pq) ==
    IF impl # "gemini" THEN 0
    ELSE (IF ~pq.experience_requirements.has_max THEN 0
          ELSE IF emp.experience_years <= pq.experience_requirements.max_years
               THEN 20 ELSE -20)
         + domain_match_count(emp, pq) * 30
         + (IF emp.availability = "available" THEN 10
            ELSE IF emp.availability = "busy" THEN -20 ELSE 0)

\* the part of a result's relevance_score that is neither its similarity nor
\* its skill, max_years, domain and availability terms
MinExperienceAdjustment(impl, v, pq) ==
    v.relevance_score - v.employee.similarity_score
       - v.employee.skill_match_count * 40 - OtherTerms(impl, v.employee, pq)

\* C12: the minimum-experience adjustment of a candidate's score is +0.3 when
\* the query has a min_years and experience_years >= min_years, -0.5 when it
\* has one and experience_years < min_years, and nothing when the query has no
\* min_years requirement.
C12_MinExperienceOnlyWhenRequired ==
    (call.impl # None /\ ~call.outcome.raised) =>
        LET pq == process_query(call.query, seed)
            req == pq.experience_requirements
        IN \A i \in 1..Len(call.outcome.value) :
              LET v == call.outcome.value[i]
              IN MinExperienceAdjustment(call.impl, v, pq) =
                    (IF ~req.has_min THEN 0
                     ELSE IF v.employee.experience_years >= req.min_years THEN 30 ELSE -50)

\* the instance as it would be had the accelerated index not been attempted
Unaccelerated(r) ==
    [r EXCEPT !.employee_embeddings = r.raw_embeddings,
              !.faiss_index = NoIndex, !.faiss_active = FALSE]

\* C17: the index becomes the active one only after its build has succeeded;
\* after a failed load or build the search goes through the brute-force path
\* and returns what it would have returned had no accelerated build been
\* attempted.
C17_FailedBuildKeepsRanking ==
    (rag.constructed = "ok" /\ rag.faiss_failed) =>
        /\ ~rag.faiss_active /\ rag.faiss_index = NoIndex
        /\ (call.impl = "rag" /\ call.start = nbuilds =>
               call.outcome = enhanced_search(Unaccelerated(rag), cacheObj, <<>>, {},
                                              call.query, call.top_k, now, seed,
                                              geometry, faissTie, env).outcome)

\* a search has returned two ranked results after the index build failed
C17_Witness ==
    /\ rag.constructed = "ok" /\ rag.faiss_failed /\ rag.employee_embeddings.normalized
    /\ call.impl = "rag" /\ call.start = nbuilds /\ call.computed
    /\ Len(call.outcome.value) = 2
    /\ call.outcome.value[1].relevance_score > call.outcome.value[2].relevance_score

\* the instance as GeminiEmployeeRAG(employees) constructs it
FreshGrag == GeminiEmployeeRAG_init(employees, [gem |-> "ok", gemEmbed |-> TRUE])

\* C26: a search leaves the employee list and every record of it, the
\* embedding matrix and the index of the instance as they were, so that a
\* search that computes its result returns what the same search returns on
\* the instance as it was constructed.
C26_SearchLeavesInstance ==
    [][ IsSearchStep =>
          /\ rag' = rag
          /\ grag'.employees = grag.employees
          /\ grag'.employee_embeddings = grag.employee_embeddings
          /\ (call'.impl = "gemini" /\ call'.computed =>
                 call'.outcome = gemini_enhanced_search(FreshGrag, call'.query, call'.top_k,
                                                        seed, geometry, env).outcome) ]_vars

\* the second search of a process computed a ranking after the first one had
\* scored the same employees
C26_Witness ==
    /\ call.impl = "gemini" /\ call.start = nbuilds /\ call.computed
    /\ Len(grag.query_cache) = 2
    /\ Len(grag.query_cache[1].value) > 0 /\ Len(call.outcome.value) > 0

\* C18: the index search returns its candidates in non-increasing order of
\* similarity, and of two candidates with equal similarity the one stored
\* first (the lower employee index) comes first.
C18_TiesInStorageOrder ==
    (call.impl # None /\ call.computed) =>
        \A i \in 1..(Len(call.candidates) - 1) :
            \/ call.candidates[i].similarity_score > call.candidates[i + 1].similarity_score
            \/ /\ call.candidates[i].similarity_score
                     = call.candidates[i + 1].similarity_score
               /\ call.candidates[i].id < call.candidates[i + 1].id

\* the key of the call c is in the cache of the instance serving it
StoredFor(c, st, gr) ==
    IF c.impl = "gemini"
    THEN gemini_cache_key(c.query, c.top_k) \in QueryCacheKeys(gr.query_cache)
    ELSE Pk(cache_key(c.query, c.top_k)) \in StoreKeys(st)

Completed(c) == c.impl # None /\ c.active /\ ~c.outcome.raised

\* C19: a search that missed the cache and completed leaves its result stored
\* under the (normalized query, top_k) key, and the identical search made next,
\* within the TTL and in the same process, is answered from the cache without
\* a call to the embedding provider.
C19_MissThenHit ==
    [][ IsSearchStep =>
          /\ (Completed(call') /\ call'.computed => StoredFor(call', store', grag'))
          /\ (Completed(call) /\ CallKey(call') = CallKey(call) /\ call.start = nbuilds
                 => ~call'.computed) ]_vars

(***************************************************************************)
(* SpecDrift: the dataset changes between process starts, and the          *)
(* processes are configured with or without the external cache.            *)
(***************************************************************************)
\* REDIS_URL names a reachable server
RedisConfig ==
    [backend |-> "auto", url |-> "redis://cache:6379/0", lib |-> TRUE, ping |-> "PONG"]

\* starts without faiss in which a provider works (every start draws the
\* same hash seed)
DriftEnvs ==
    {e \in StartEnvs : ~e.faiss /\ (GemWorks(e) \/ (e.gem # "ok" /\ StWorks(e)))}

InitDrift ==
    /\ InitCacheVars
    /\ InitServiceVars
    /\ InitBuildVars
    /\ InitRankVars
    /\ InitQueryVars
    /\ cfg \in {DefaultConfig, RedisConfig}
    /\ cacheObj = NoCache
    /\ redis = {}

NextDrift ==
    \/ \E e \in DriftEnvs : Startup(e, "s0")
    \/ \E query \in RankQueries, top_k \in TopKs : Search(query, top_k)
    \/ \E i \in 1..Len(employees), value \in FieldValues("experience_years") :
          ChangeDataset(i, "experience_years", value)

SpecDrift == InitDrift /\ [][NextDrift]_vars

\* the last search was answered from a cache
Served(c) == c.impl # None /\ c.active /\ ~c.computed /\ ~c.outcome.raised

SearchDuring(query, top_k, works) ==
    SearchUnder(query, top_k, [env EXCEPT !.gemEmbed = works, !.stEmbed = works])

NextOutage ==
    \/ \E e \in DriftEnvs : Startup(e, "s0")
    \/ \E query \in RankQueries, top_k \in TopKs, works \in BOOLEAN :
          SearchDuring(query, top_k, works)

SpecOutage == InitDrift /\ [][NextOutage]_vars

\* C21: a search during which the embedding provider fails raises to its own
\* caller and to nobody else: the instance stays as active as it was, every
\* entry of the result caches was there before the call, and a search during
\* which the provider answers does not raise, also after a failed one.
C21_ProviderFailureStaysLocal ==
    [][ IsSearchStep =>
          /\ (call'.active /\ call'.computed /\ ~call'.provider_ok => call'.outcome.raised)
          /\ (call'.provider_ok => ~call'.outcome.raised)
          /\ (call'.outcome.raised =>
                 /\ rag' = rag /\ is_active(rag') = is_active(rag)
                 /\ grag' = grag
                 /\ SeqRange(store') \subseteq SeqRange(store)
                 /\ redis' \subseteq redis) ]_vars

\* in one process a search raised because the provider failed, and a later
\* search of the same process, with the provider back, computed a ranking
C21_Witness ==
    /\ call.impl # None /\ call.start = nbuilds /\ call.failed_at = call.start
    /\ call.provider_ok /\ call.computed /\ ~call.outcome.raised
    /\ Len(call.outcome.value) > 0

(***************************************************************************)
(* SpecCorrupt: the external cache is shared, and another writer may leave *)
(* any text under a key of the searches.                                   *)
(***************************************************************************)
\* a result as another release of the service dumped it
ForeignItem ==
    [employee |-> [id |-> 99, name |-> "Eve"], relevance_score |-> 0,
     match_reasons |-> <<>>, confidence |-> 0]

\* what another writer left under a key: results of another shape, a list of
\* which only the first element is a result, a list of numbers, a number, a
\* text that is no JSON, and a well-formed list of results
ForeignData ==
    {json_dumps(PyList(<<[employee |-> [id |-> 99, name |-> "Eve"], score |-> 0]>>)),
     json_dumps(PyList(<<ForeignItem, [employee |-> [id |-> 99, name |-> "Eve"]]>>)),
     json_dumps(PyList(<<[scalar |-> 1]>>)),
     json_dumps(PyInt(5)),
     [valid |-> FALSE, value |-> PyStr(<<[scalar |-> "<"]>>)],
     json_dumps(PyList(<<ForeignItem>>))}

MaxForeign == 1        \* keys that hold data of another writer at one time

\* another client of the server writes data under the key of a search
Corrupt(query, top_k, data) ==
    /\ cfg = RedisConfig
    /\ Cardinality({x \in redis : x.written_for = <<>>
                                   /\ x.pk # Pk(cache_key(query, top_k))}) < MaxForeign
    /\ redis' = {x \in redis : x.pk # Pk(cache_key(query, top_k))}
                   \cup {[pk |-> Pk(cache_key(query, top_k)), data |-> data,
                          expires |-> now + DefaultTTL, written_for |-> <<>>]}
    /\ UNCHANGED <<cfg, cacheObj>>
    /\ UNCHANGED serviceVars
    /\ UNCHANGED cacheVars
    /\ UNCHANGED buildVars
    /\ UNCHANGED rankVars
    /\ UNCHANGED queryVars

NextCorrupt ==
    \/ \E e \in DriftEnvs : Startup(e, "s0")
    \/ \E query \in RankQueries, top_k \in TopKs : Search(query, top_k)
    \/ \E query \in RankQueries, top_k \in TopKs, data \in ForeignData :
          Corrupt(query, top_k, data)

SpecCorrupt == InitDrift /\ [][NextCorrupt]_vars

\* the value cannot be turned into a list of SearchResult
Malformed(v) ==
    \/ v.type = "int"
    \/ \E i \in 1..Len(v.items) : DOMAIN v.items[i] # SearchResultFields

\* C22: when the cache returns a value that cannot be converted into a list
\* of SearchResult, the search goes on as after a miss: it computes the
\* ranking, does not raise while the provider answers, and returns no element
\* of the cached value.
C22_MalformedEntryIsMiss ==
    (call.impl = "rag" /\ call.active /\ call.found.hit /\ Truthy(call.found.value)
        /\ Malformed(call.found.value)) =>
        /\ call.computed
        /\ (call.provider_ok => ~call.outcome.raised)
        /\ \A i \in 1..Len(call.outcome.value) :
              call.outcome.value[i] \notin SeqRange(call.found.value.items)

\* a search found a list whose first element is a result and whose second is
\* not, and returned a ranking of its own
C22_Witness ==
    /\ call.impl = "rag" /\ call.found.hit
    /\ Len(call.found.value.items) = 2 /\ call.found.value.items[1] = ForeignItem
    /\ Malformed(call.found.value)
    /\ call.computed /\ ~call.outcome.raised /\ Len(call.outcome.value) > 0

(***************************************************************************)
(* SpecSummary: ResponseGenerator.generate_response on ranked results.     *)
(***************************************************************************)
MaxResponses == 2      \* generate_response calls in one run
MaxCandidates == 3     \* longest list of search results

SummaryQueries == {<<"d", "e", "v">>, <<" ", "D", "e", "v">>, <<"d", "e", "v", "s">>}

\* a result of a search about employee i
ResultOf(i) ==
    [employee |-> [id |-> i, name |-> ToStr(i)], relevance_score |-> 0,
     match_reasons |-> <<>>, confidence |-> 0]

\* the ranked lists: employees 1..MaxCandidates, none twice
SummaryResults ==
    {[i \in 1..Len(ids) |-> ResultOf(ids[i])] :
        ids \in {q \in UNION {[1..n -> 1..MaxCandidates] : n \in 0..MaxCandidates} :
                    \A i, j \in 1..Len(q) : i # j => q[i] # q[j]}}

\* response_generator.generate_response(query, search_results)
Respond(query, search_results, ai) ==
    /\ summaries.n < MaxResponses
    /\ LET res == generate_response(summaries.store, query, search_results, ai, now)
       IN summaries' = [store |-> res.store,
                        last |-> [query |-> query, candidates |-> res.candidates,
                                  message |-> res.message, key |-> res.key,
                                  cached |-> res.cached],
                        prev |-> summaries.last,
                        n |-> summaries.n + 1]
    /\ UNCHANGED threads
    /\ UNCHANGED clientVars
    /\ UNCHANGED cacheVars
    /\ UNCHANGED buildVars
    /\ UNCHANGED rankVars
    /\ UNCHANGED queryVars
    /\ UNCHANGED configVars

NextSummary ==
    \E query \in SummaryQueries, search_results \in SummaryResults, ai \in AiOutcomes :
        Respond(query, search_results, ai)

SpecSummary == InitBuild /\ [][NextSummary]_vars

\* C24: the key of the summary cache changes whenever the ranked result
\* drifts: two calls with the same query text whose candidate lists differ in
\* the identity or the order of any candidate use different keys, and a
\* summary taken from the cache was written about exactly the candidates of
\* the call it is served to.
C24_SummaryKeyFollowsDrift ==
    /\ (summaries.n >= 2 /\ summaries.prev.key # <<>> /\ summaries.last.key # <<>>
           /\ summaries.prev.query = summaries.last.query
           /\ CandidateIds(summaries.prev.candidates)
                 # CandidateIds(summaries.last.candidates)
        => summaries.prev.key # summaries.last.key)
    /\ (summaries.last.cached =>
           summaries.last.message.made_for = CandidateIds(summaries.last.candidates))

(***************************************************************************)
(* SpecThreads: the threads of one process call enhanced_search on the     *)
(* GeminiEmployeeRAG instance; a thread may be preempted between any two   *)
(* statements of the cache bookkeeping at the end of the call.             *)
(***************************************************************************)
ThreadQueries == RankQueries \X (1..MaxTopK)

\* the frame of a step of a thread
ThreadFrame ==
    /\ UNCHANGED <<seed, geometry, faissTie, call, nsearch>>
    /\ UNCHANGED summaries
    /\ UNCHANGED clientVars
    /\ UNCHANGED cacheVars
    /\ UNCHANGED buildVars
    /\ UNCHANGED queryVars
    /\ UNCHANGED configVars

\* gemini_rag.py:147-176: the lookup and, after a miss, the computation of the
\* results, which reads nothing another thread writes
Begin(t, query, top_k) ==
    /\ grag.constructed = "ok"
    /\ threads[t].pc \in {"idle", "done"}
    /\ threads[t].error = None
    /\ threads[t].ncalls < MaxThreadCalls
    /\ LET res == gemini_enhanced_search(grag, query, top_k, seed, geometry, env)
       IN threads' = [threads EXCEPT ![t] =
                        [pc |-> IF res.computed THEN "check" ELSE "done",
                         key |-> gemini_cache_key(query, top_k),
                         results |-> res.outcome.value,
                         oldest_key |-> "", error |-> None,
                         ncalls |-> threads[t].ncalls + 1]]
    /\ UNCHANGED grag
    /\ ThreadFrame

\* gemini_rag.py:179: if len(self._query_cache) >= self._cache_size_limit
CheckSize(t) ==
    /\ threads[t].pc = "check"
    /\ threads' = [threads EXCEPT ![t].pc =
                      IF Len(grag.query_cache) >= cache_size_limit THEN "pick"
                      ELSE "insert"]
    /\ UNCHANGED grag
    /\ ThreadFrame

\* gemini_rag.py:180: oldest_key = next(iter(self._query_cache)); StopIteration
\* on an empty dict
PickOldest(t) ==
    /\ threads[t].pc = "pick"
    /\ threads' = IF grag.query_cache = <<>>
                  THEN [threads EXCEPT ![t].pc = "done", ![t].error = "StopIteration"]
                  ELSE [threads EXCEPT ![t].pc = "evict",
                                       ![t].oldest_key = grag.query_cache[1].key]
    /\ UNCHANGED grag
    /\ ThreadFrame

\* gemini_rag.py:181: del self._query_cache[oldest_key]; KeyError when the key
\* is gone
Evict(t) ==
    /\ threads[t].pc = "evict"
    /\ IF threads[t].oldest_key \in QueryCacheKeys(grag.query_cache)
       THEN /\ grag' = [grag EXCEPT !.query_cache =
                           SelectSeq(grag.query_cache,
                                     LAMBDA c : c.key # threads[t].oldest_key)]
            /\ threads' = [threads EXCEPT ![t].pc = "insert"]
       ELSE /\ threads' = [threads EXCEPT ![t].pc = "done", ![t].error = "KeyError"]
            /\ UNCHANGED grag
    /\ ThreadFrame

\* gemini_rag.py:182-184: self._query_cache[cache_key] = detailed_results; return
Insert(t) ==
    /\ threads[t].pc = "insert"
    /\ LET entry == [key |-> threads[t].key, value |-> threads[t].results]
           qc == grag.query_cache
       IN grag' = [grag EXCEPT !.query_cache =
                      IF entry.key \in QueryCacheKeys(qc)
                      THEN [i \in 1..Len(qc) |-> IF qc[i].key = entry.key THEN entry
                                                 ELSE qc[i]]
                      ELSE Append(qc, entry)]
    /\ threads' = [threads EXCEPT ![t].pc = "done"]
    /\ ThreadFrame

NextThreads ==
    \/ \E e \in DriftEnvs : nbuilds = 0 /\ GemWorks(e) /\ Startup(e, "s0")
    \/ \E t \in Threads, q \in ThreadQueries : Begin(t, q[1], q[2])
    \/ \E t \in Threads : CheckSize(t)
    \/ \E t \in Threads : PickOldest(t)
    \/ \E t \in Threads : Evict(t)
    \/ \E t \in Threads : Insert(t)

SpecThreads == InitBuild /\ [][NextThreads]_vars

\* C25: concurrent searches on one instance are safe: in every interleaving
\* no call fails in the check, evict and insert steps of the cache, and when
\* no call is under way the cache holds at most cache_size_limit entries.
C25_ConcurrentSearchesSafe ==
    /\ \A t \in Threads : threads[t].error = None
    /\ ((\A t \in Threads : threads[t].pc \in {"idle", "done"}) =>
           Len(grag.query_cache) <= cache_size_limit)

(***************************************************************************)
(* SpecRetry: calls of RobustAPIClient.health_check and search_candidates   *)
(* through the wrapper of retry_on_failure; the server and the network     *)
(* choose what every exchange gives.                                       *)
(***************************************************************************)
MaxWrappedCalls == 2   \* calls through the wrapper in one run

\* what a step of the wrapper or of the manager leaves alone
ClientFrame ==
    /\ UNCHANGED <<summaries, threads>>
    /\ UNCHANGED cacheVars
    /\ UNCHANGED buildVars
    /\ UNCHANGED rankVars
    /\ UNCHANGED queryVars
    /\ UNCHANGED configVars

\* client.health_check() / client.search_candidates(...): the wrapper starts
Enter(func) ==
    /\ retry.pc \in {"idle", "done"}
    /\ retry.ncalls < MaxWrappedCalls
    /\ retry' = wrapper_enter(retry, func)
    /\ UNCHANGED manager
    /\ ClientFrame

\* one attempt, which meets the exchange x
Attempt(x) ==
    /\ retry.pc = "loop"
    /\ retry' = wrapper_iteration(retry, x)
    /\ UNCHANGED manager
    /\ ClientFrame

NextRetry ==
    \/ \E func \in WrappedFunctions : Enter(func)
    \/ \E x \in Exchanges : Attempt(x)

SpecRetry == InitBuild /\ [][NextRetry]_vars

\* the exchange ends in a request exception
RaisesRequestException(x) ==
    \/ x.kind = "raise" /\ x.error \in RequestExceptions
    \/ x.kind = "response" /\ x.status = 200 /\ x.json = "RequestException"

\* the wait before the k-th retry: the delay multiplied k - 1 times by the
\* backoff factor
RECURSIVE WaitBefore(_, _)
WaitBefore(args, k) ==
    IF k = 1 THEN args.delay
    ELSE (WaitBefore(args, k - 1) * args.backoff.num) \div args.backoff.den

\* C28: a call wrapped by retry_on_failure(max_retries=M) invokes the function
\* at most M + 1 times; each invocation gets retry_count = the number of
\* earlier failed attempts; the call ends at the first attempt that does not
\* raise a request exception, with the result of that attempt; the wait is the
\* delay before the first retry and is multiplied by the backoff factor after
\* each failed attempt; after M + 1 failed attempts the last exception is
\* raised; a response with a status other than 200 is returned as an
\* unsuccessful APIResponse and ends the call.
C28_RetryOnFailure ==
    retry.pc # "idle" =>
        LET args == RetryArgs(retry.func)
            n == Len(retry.calls)
        IN /\ n <= args.max_retries + 1
           /\ \A i \in 1..n : retry.calls[i] = i - 1
           /\ \A i \in 1..(n - 1) : RaisesRequestException(retry.seen[i])
           /\ \A i \in 1..Len(retry.sleeps) : retry.sleeps[i] = WaitBefore(args, i)
           /\ \A i \in 1..n :
                 retry.seen[i].kind = "response" /\ retry.seen[i].status # 200 =>
                    /\ i = n /\ retry.pc = "done"
                    /\ ~retry.result.raised
                    /\ ~retry.result.value.success
                    /\ retry.result.value.status_code = retry.seen[i].status
                    /\ retry.result.value.retry_count = i - 1
           /\ retry.pc = "loop" =>
                 /\ n <= args.max_retries
                 /\ Len(retry.sleeps) = n
                 /\ n > 0 => RaisesRequestException(retry.seen[n])
           /\ retry.pc = "done" =>
                 /\ n >= 1
                 /\ Len(retry.sleeps) = n - 1
                 /\ IF RaisesRequestException(retry.seen[n])
                    THEN /\ n = args.max_retries + 1
                         /\ retry.result.raised
                         /\ retry.result.error =
                               CallWrapped(retry.func, retry.seen[n], n - 1).error
                    ELSE retry.result = CallWrapped(retry.func, retry.seen[n], n - 1)

\* C28 witness: health_check failed four times; the waits were 1, 2 and 4
\* seconds and the exception of the fourth attempt was raised.
C28_Witness ==
    /\ retry.pc = "done" /\ retry.func = "health_check"
    /\ retry.calls = <<0, 1, 2, 3>>
    /\ retry.sleeps = <<1000, 2000, 4000>>
    /\ retry.result.raised
    /\ retry.result.error = [type |-> "Timeout", attempt |-> 4]

(***************************************************************************)
(* SpecManager: the process imports ai_client, which constructs the        *)
(* module-level AIClientManager from the clients that are available, and   *)
(* the service calls its generate_response.                                *)
(***************************************************************************)
MaxGenerates == 4      \* calls of AIClientManager.generate_response in one run

\* ai_manager = AIClientManager() with the clients of the set available
Import(available) ==
    /\ manager.n < MaxGenerates
    /\ manager' = AIClientManager(available) @@
                  [request |-> "none", does |-> manager.does, generated |-> NoGenerated,
                   n |-> manager.n]
    /\ UNCHANGED retry
    /\ ClientFrame

\* ai_client.generate_response(...), the clients behaving as does says
Generate(request, does) ==
    /\ manager.n < MaxGenerates
    /\ manager' = [manager EXCEPT
                      !.request = request,
                      !.does = does,
                      !.generated = AIClientManager_generate_response(manager, request, does),
                      !.n = manager.n + 1]
    /\ UNCHANGED retry
    /\ ClientFrame

NextManager ==
    \/ \E available \in SUBSET {"gemini", "openai"} : Import(available)
    \/ \E request \in PromptRequests, does \in [{"gemini", "openai"} -> ClientBehaviours] :
          Generate(request, does)

SpecManager == InitBuild /\ [][NextManager]_vars

\* the clients in the order the claim gives: the primary, then the fallbacks
ClientOrder(m) ==
    (IF m.primary_client # None THEN <<m.primary_client>> ELSE <<>>) \o m.fallback_clients

\* C29: generate_response calls the primary client first and then the fallback
\* clients in order, stops at the first client that succeeds and returns its
\* text, and never raises: when every client fails, or none is configured,
\* it returns the static fallback text.
C29_FallbackOrder ==
    manager.request # "none" =>
        LET g == manager.generated
            order == ClientOrder(manager)
            works == {i \in 1..Len(order) : manager.does[order[i]] # "raise"}
        IN /\ ~g.raised
           /\ Len(g.called) <= Len(order)
           /\ \A i \in 1..Len(g.called) : g.called[i] = order[i]
           /\ IF works # {}
              THEN LET first == CHOOSE i \in works : \A j \in works : i <= j
                   IN /\ Len(g.called) = first
                      /\ g.response = ClientText(order[first], manager.does[order[first]],
                                                 manager.request)
              ELSE /\ g.called = order
                   /\ g.response = StaticFallbackText

\* C29 witness: the primary client failed and the fallback client answered.
C29_Witness ==
    /\ manager.request = "full"
    /\ manager.generated.called = <<"gemini", "openai">>
    /\ manager.does["gemini"] = "raise"
    /\ manager.generated.response.by = "openai"

(***************************************************************************)
(* SpecQuery: QueryProcessor.process_query on the queries of up to MaxWords *)
(* words, and on the scenario query of the tests.                          *)
(***************************************************************************)
MaxWords == 3          \* words of an enumerated query

QueryVocabulary ==
    {"Python", "sql", "developer", "with", "healthcare", "experience", "years",
     "3", "5", "5+", "3-5", "minimum", "senior", "junior", "mid", "lead"}

Scenario ==
    <<"Python", "developer", "with", "5+", "years", "experience", "in", "healthcare">>

QueryWords ==
    UNION {[1..n -> QueryVocabulary] : n \in 0..MaxWords} \cup {Scenario}

InitQuery ==
    /\ InitCacheVars
    /\ InitServiceVars
    /\ InitBuildVars
    /\ InitRankVars
    /\ InitConfigVars
    /\ qwords \in QueryWords
    /\ pquery = NoPq

\* QueryProcessor().process_query(query) in a process with hash seed s
Process(s) ==
    /\ ~pquery.processed
    /\ seed' = s
    /\ pquery' = [processed |-> TRUE] @@ process_words(qwords, s)
    /\ UNCHANGED <<qwords, geometry, faissTie, grag, call, nsearch>>
    /\ UNCHANGED cacheVars
    /\ UNCHANGED buildVars
    /\ UNCHANGED configVars
    /\ UNCHANGED serviceVars

NextQuery == \E s \in HashSeeds : Process(s)

SpecQuery == InitQuery /\ [][NextQuery]_vars

\* the patterns that match and assign the requirement type, in list order
MatchingMin(words) ==
    SelectSeq(experience_patterns(words), LAMBDA p : p.m.matched /\ SetsMin(p))
MatchingMax(words) ==
    SelectSeq(experience_patterns(words), LAMBDA p : p.m.matched /\ SetsMax(p))

\* C13: experience extraction takes, for min_years and for max_years, the
\* value of the first pattern in list order that matches; a level word after
\* a numeric years pattern does not overwrite the numeric value.
C13_FirstPatternWins ==
    pquery.processed =>
        LET req == pquery.experience_requirements
            mins == MatchingMin(pquery.cleaned)
            maxs == MatchingMax(pquery.cleaned)
        IN /\ req.has_min = (mins # <<>>)
           /\ (mins # <<>> => req.min_years = Head(mins).m.min)
           /\ req.has_max = (maxs # <<>>)
           /\ (maxs # <<>> => req.max_years = Head(maxs).m.max)

\* C14: the query "Python developer with 5+ years experience in healthcare"
\* yields min_years 5, a python skill term and the healthcare domain; and a
\* query whose only experience phrase is "5+ years" yields min_years 5.
C14_ScenarioFivePlusYears ==
    pquery.processed =>
        /\ (qwords = Scenario =>
               /\ pquery.experience_requirements.has_min
               /\ pquery.experience_requirements.min_years = 5
               /\ "python" \in SeqRange(pquery.skill_terms)
               /\ "healthcare" \in SeqRange(pquery.domain_context))
        /\ ((\E i \in 1..(Len(qwords) - 1) : qwords[i] = "5+" /\ qwords[i + 1] = "years")
              /\ SeqRange(qwords) \subseteq {"Python", "sql", "developer", "with", "healthcare",
                                             "experience", "years", "5+"}
               => /\ pquery.experience_requirements.has_min
                  /\ pquery.experience_requirements.min_years = 5)

(***************************************************************************)
(* SpecConfig: get_cache in every environment.                             *)
(***************************************************************************)
InitConfig ==
    /\ InitCacheVars
    /\ InitServiceVars
    /\ InitBuildVars
    /\ InitRankVars
    /\ InitQueryVars
    /\ cfg \in Configs
    /\ cacheObj = NoCache
    /\ redis = {}

\* a component calls get_cache(prefix=p, default_ttl=ttl)
GetCache(p, ttl) ==
    /\ ~cacheObj.made
    /\ cacheObj' = get_cache(cfg, p, ttl)
    /\ UNCHANGED <<cfg, redis, qwords, pquery>>
    /\ UNCHANGED serviceVars
    /\ UNCHANGED cacheVars
    /\ UNCHANGED buildVars
    /\ UNCHANGED rankVars

NextConfig == \E p \in Prefixes, ttl \in 1..DefaultTTL : GetCache(p, ttl)

SpecConfig == InitConfig /\ [][NextConfig]_vars

\* an external store is configured and its probe succeeds
ExternalReachable(c) ==
    /\ BackendName(c.backend) \in {"auto", "redis"}
    /\ c.url # "" /\ c.lib
    /\ UrlParses(c.url) /\ c.ping = "PONG"

\* C15: get_cache never fails, whatever the configuration value, the store
\* address and the reachability of the store: it returns a cache, the
\* external one only when one is configured and its probe succeeded, the
\* in-process one in every other case.
C15_SelectionNeverFails ==
    cacheObj.made =>
        /\ cacheObj.raised = None
        /\ cacheObj.kind \in {"memory", "redis"}
        /\ (cacheObj.kind = "redis" => ExternalReachable(cfg))
        /\ (~ExternalReachable(cfg) => cacheObj.kind = "memory")

\* the store is configured but does not answer: the in-process cache is returned
C15_Witness ==
    /\ cacheObj.made /\ cacheObj.kind = "memory"
    /\ cfg.backend = "redis" /\ cfg.url = "redis://cache:6379/0" /\ cfg.lib
    /\ cfg.ping = "ConnectionError"

(***************************************************************************)
(* SpecCache: callers of one MemoryCache.                                  *)
(***************************************************************************)
InitCache == InitCacheVars /\ InitBuildVars /\ InitRankVars /\ InitQueryVars /\ InitConfigVars /\ InitServiceVars

\* history: the resident key whose insertion is the earliest
Oldest(b, s) ==
    CHOOSE pk \in StoreKeys(s) \cap DOMAIN b :
        \A q \in StoreKeys(s) \cap DOMAIN b : b[pk].n <= b[q].n

\* history: what the caller asked for, per resident key: n the operation that
\* inserted the key, at/ttl/value those of the latest set() of the key
Requested(value, ttl_seconds, t, n) ==
    [n |-> n, at |-> t, value |-> value,
     ttl |-> IF ttl_seconds # 0 THEN ttl_seconds ELSE DefaultTTL]

Set(key, value, ttl_seconds) ==
    /\ nops < MaxOps
    /\ LET s2 == MemoryCache_set(store, key, value, ttl_seconds, now)
           full == MemoryCache_size(store) >= Capacity
           gone == StoreKeys(store) \ StoreKeys(s2)
           stays(pk) == /\ pk \in StoreKeys(store) \cap DOMAIN born
                        /\ ~(full /\ pk = Oldest(born, store))
       IN /\ store' = s2
          /\ evicted' = IF gone = {} THEN None ELSE CHOOSE pk \in gone : TRUE
          /\ born' = [pk \in StoreKeys(s2) |->
                        IF pk = Pk(key)
                        THEN Requested(value, ttl_seconds, now,
                                       IF stays(pk) THEN born[pk].n ELSE nops + 1)
                        ELSE IF pk \in DOMAIN born THEN born[pk]
                        ELSE Requested(NoValue, 0, now, nops + 1)]
    /\ nops' = nops + 1
    /\ op' = [type |-> "set", key |-> key, value |-> value, at |-> now]
    /\ UNCHANGED <<now, ret>>
    /\ UNCHANGED buildVars
    /\ UNCHANGED rankVars
    /\ UNCHANGED queryVars
    /\ UNCHANGED configVars
    /\ UNCHANGED serviceVars

Get(key) ==
    /\ nops < MaxOps
    /\ LET r == MemoryCache_get(store, key, now)
       IN /\ store' = r.store
          /\ ret' = r.value
          /\ born' = [pk \in StoreKeys(r.store) \cap DOMAIN born |-> born[pk]]
    /\ nops' = nops + 1
    /\ op' = [type |-> "get", key |-> key, value |-> NoValue, at |-> now]
    /\ UNCHANGED <<now, evicted>>
    /\ UNCHANGED buildVars
    /\ UNCHANGED rankVars
    /\ UNCHANGED queryVars
    /\ UNCHANGED configVars
    /\ UNCHANGED serviceVars

Tick ==
    /\ now < MaxTime
    /\ now' = now + 1
    /\ UNCHANGED <<store, born, nops, op, ret, evicted>>
    /\ UNCHANGED buildVars
    /\ UNCHANGED rankVars
    /\ UNCHANGED queryVars
    /\ UNCHANGED configVars
    /\ UNCHANGED serviceVars

NextCache ==
    \/ \E k \in CacheKeys, v \in {<<"v", nops + 1>>}, t \in TTLArgs : Set(k, v, t)
    \/ \E k \in CacheKeys : Get(k)
    \/ Tick

SpecCache == InitCache /\ [][NextCache]_vars

(***************************************************************************)
(* Claims about MemoryCache (SpecCache).                                   *)
(***************************************************************************)
IsSetStep == nops' = nops + 1 /\ op'.type = "set"
IsGetStep == nops' = nops + 1 /\ op'.type = "get"
Entries(s) == {s[i] : i \in 1..Len(s)}

\* C1: a set() on a store that holds Capacity entries removes exactly the
\* entry whose key was inserted earliest, whatever get() calls were made in
\* between, and every other entry stays as it was; a set() on a store
\* below capacity removes nothing.
C1_FifoEviction ==
    [][ IsSetStep =>
          LET pk == Pk(op'.key) IN
          IF MemoryCache_size(store) >= Capacity
          THEN LET old == Oldest(born, store) IN
               /\ StoreKeys(store') = (StoreKeys(store) \ {old}) \cup {pk}
               /\ \A e \in Entries(store) : e.pk \notin {old, pk} => e \in Entries(store')
          ELSE /\ StoreKeys(store') = StoreKeys(store) \cup {pk}
               /\ \A e \in Entries(store) : e.pk # pk => e \in Entries(store')
      ]_vars

\* C1 witness: a set() of a new key on a full store has just evicted another
\* key, and the store is full again.
C1_Witness ==
    /\ op.type = "set"
    /\ evicted # None
    /\ evicted # Pk(op.key)
    /\ evicted \notin StoreKeys(store)
    /\ MemoryCache_size(store) = Capacity

\* C2: set(k, v, ttl) immediately followed by get(k), with no time elapsed,
\* returns v, whatever the store held before (a full store included).
C2_SetThenGet ==
    [][ (op.type = "set" /\ IsGetStep /\ op'.key = op.key /\ now = op.at)
          => ret' = op.value ]_vars

\* C2 witness: a get() has just returned the value written by the set()
\* right before it, and that set() had to evict an entry of a full store.
C2_Witness ==
    /\ op.type = "get"
    /\ ret \in CacheValues
    /\ evicted # None
    /\ Pk(op.key) \in DOMAIN born
    /\ born[Pk(op.key)].n = nops - 1
    /\ born[Pk(op.key)].at = now

\* C3: a get() made more than ttl seconds after the entry was set returns
\* nothing and removes the entry; a get() made before ttl seconds have
\* elapsed returns the value and leaves the store as it was.
C3_LazyExpiry ==
    [][ (IsGetStep /\ Pk(op'.key) \in StoreKeys(store) \cap DOMAIN born) =>
          LET pk == Pk(op'.key)
              req == born[pk]
          IN /\ (now - req.at > req.ttl) =>
                    (ret' = NoValue /\ pk \notin StoreKeys(store')
                       /\ MemoryCache_size(store') = MemoryCache_size(store) - 1)
             /\ (now - req.at < req.ttl) => (ret' = req.value /\ store' = store)
      ]_vars

\* C3 witness: a get() has just dropped an expired entry.
C3_Witness ==
    /\ op.type = "get"
    /\ ret = NoValue
    /\ Pk(op.key) \notin StoreKeys(store)
    /\ MemoryCache_size(store) = Capacity - 1
    /\ now = MaxTime

\* C27: after any sequence of set() and get() calls the number of stored
\* entries, as size() reports it, is at most the capacity.
C27_SizeWithinCapacity == MemoryCache_size(store) <= Capacity

\* C27 witness: more keys than the capacity have been set, the last set()
\* evicted one, and the store is full.
C27_Witness ==
    /\ op.type = "set" /\ nops > Capacity
    /\ evicted # None
    /\ Cardinality(DOMAIN born \cup {evicted}) > Capacity
    /\ MemoryCache_size(store) = Capacity

\* C30: a set() of a key that is already stored replaces the value, the
\* timestamp and the ttl of that key only: the keys stored are the same
\* after the call and every entry of another key is as it was.
C30_OverwriteKeepsOthers ==
    [][ (IsSetStep /\ Pk(op'.key) \in StoreKeys(store)) =>
          /\ StoreKeys(store') = StoreKeys(store)
          /\ \A e \in Entries(store) : e.pk # Pk(op'.key) => e \in Entries(store')
      ]_vars

====
